---- MODULE Spec2Model ----
(***************************************************************************)
(* Metric-computation core of ParameterEstimationGPR                       *)
(* (scripts/shared_metrics.py and its consumers).                          *)
(*                                                                         *)
(* Python floats are IEEE-754 binary64 values.  They are modelled here     *)
(* bit-exactly: a finite double is a sign, a 53-bit mantissa (held as a    *)
(* little-endian sequence of 15-bit limbs, because TLC integers are 32     *)
(* bits wide) and a binary exponent; every arithmetic operation computes   *)
(* the exact result and rounds it to nearest, ties to even.  The inputs    *)
(* used are far from the overflow and subnormal ranges.                    *)
(***************************************************************************)
EXTENDS Integers, Sequences, FiniteSets, TLC

(***************************************************************************)
(* Natural numbers of arbitrary size: little-endian limbs, no leading      *)
(* zero limb, zero is the empty sequence.                                  *)
(***************************************************************************)
Base == 2^15

RECURSIVE BNorm(_)
BNorm(x) ==
    IF x = <<>> THEN <<>>
    ELSE IF x[Len(x)] = 0 THEN BNorm(SubSeq(x, 1, Len(x) - 1))
    ELSE x

RECURSIVE BFromInt(_)
BFromInt(n) ==
    IF n = 0 THEN <<>> ELSE <<n % Base>> \o BFromInt(n \div Base)

BLimb(x, i) == IF i <= Len(x) THEN x[i] ELSE 0

BMaxLen(x, y) == IF Len(x) >= Len(y) THEN Len(x) ELSE Len(y)

RECURSIVE BAddFrom(_, _, _, _)
BAddFrom(x, y, i, carry) ==
    IF i > BMaxLen(x, y)
    THEN (IF carry = 0 THEN <<>> ELSE <<carry>>)
    ELSE LET s == BLimb(x, i) + BLimb(y, i) + carry
         IN  <<s % Base>> \o BAddFrom(x, y, i + 1, s \div Base)

BAdd(x, y) == BAddFrom(x, y, 1, 0)

\* x - y for x >= y
RECURSIVE BSubFrom(_, _, _, _)
BSubFrom(x, y, i, borrow) ==
    IF i > Len(x) THEN <<>>
    ELSE LET d == x[i] - BLimb(y, i) - borrow
         IN  IF d < 0
             THEN <<d + Base>> \o BSubFrom(x, y, i + 1, 1)
             ELSE <<d>> \o BSubFrom(x, y, i + 1, 0)

BSub(x, y) == BNorm(BSubFrom(x, y, 1, 0))

\* -1, 0, 1 as x < y, x = y, x > y
RECURSIVE BCmpFrom(_, _, _)
BCmpFrom(x, y, i) ==
    IF i = 0 THEN 0
    ELSE IF x[i] < y[i] THEN -1
    ELSE IF x[i] > y[i] THEN 1
    ELSE BCmpFrom(x, y, i - 1)

BCmp(x, y) ==
    IF Len(x) < Len(y) THEN -1
    ELSE IF Len(x) > Len(y) THEN 1
    ELSE BCmpFrom(x, y, Len(x))

\* x * k for 0 <= k < Base
RECURSIVE BMulSmallFrom(_, _, _, _)
BMulSmallFrom(x, k, i, carry) ==
    IF i > Len(x)
    THEN (IF carry = 0 THEN <<>> ELSE <<carry>>)
    ELSE LET p == x[i] * k + carry
         IN  <<p % Base>> \o BMulSmallFrom(x, k, i + 1, p \div Base)

BMulSmall(x, k) == IF k = 0 THEN <<>> ELSE BMulSmallFrom(x, k, 1, 0)

BShiftLimbs(x, n) == IF x = <<>> THEN <<>> ELSE [i \in 1..n |-> 0] \o x

RECURSIVE BMulFrom(_, _, _)
BMulFrom(x, y, i) ==
    IF i > Len(y) THEN <<>>
    ELSE BAdd(BShiftLimbs(BMulSmall(x, y[i]), i - 1), BMulFrom(x, y, i + 1))

BMul(x, y) == BMulFrom(x, y, 1)

RECURSIVE Pow2(_)
Pow2(k) == IF k = 0 THEN 1 ELSE 2 * Pow2(k - 1)

\* x * 2^k
BShl(x, k) == BShiftLimbs(BMulSmall(x, Pow2(k % 15)), k \div 15)

\* floor(x / 2) and x mod 2
RECURSIVE BHalfFrom(_, _)
BHalfFrom(x, i) ==
    IF i > Len(x) THEN <<>>
    ELSE <<(x[i] \div 2) + (BLimb(x, i + 1) % 2) * (Base \div 2)>>
         \o BHalfFrom(x, i + 1)

BHalf(x) == BNorm(BHalfFrom(x, 1))

BOdd(x) == x # <<>> /\ x[1] % 2 = 1

RECURSIVE SmallBitLen(_)
SmallBitLen(n) == IF n = 0 THEN 0 ELSE 1 + SmallBitLen(n \div 2)

BBitLen(x) == IF x = <<>> THEN 0 ELSE 15 * (Len(x) - 1) + SmallBitLen(x[Len(x)])

RECURSIVE BPow10(_)
BPow10(k) == IF k = 0 THEN <<1>> ELSE BMulSmall(BPow10(k - 1), 10)

(***************************************************************************)
(* IEEE-754 binary64.  A value is NaN or (-1)^s * m * 2^e with m = 0 or    *)
(* 2^52 <= m < 2^53.                                                       *)
(***************************************************************************)
F64NaN == [nan |-> TRUE, s |-> 0, m |-> <<>>, e |-> 0]

F64Zero == [nan |-> FALSE, s |-> 0, m |-> <<>>, e |-> 0]

\* restoring division: after i more steps, <<remainder, quotient bits>>
RECURSIVE F64LongDiv(_, _, _)
F64LongDiv(st, T, i) ==
    IF i = 0 \/ Len(st) # 2 THEN st
    ELSE LET bit == BCmp(st[1], T) >= 0
             R1  == IF bit THEN BSub(st[1], T) ELSE st[1]
         IN  F64LongDiv(<<BMulSmall(R1, 2),
                          BAdd(BMulSmall(st[2], 2), IF bit THEN <<1>> ELSE <<>>)>>,
                        T, i - 1)

\* the last step of F64Round: M1 is the rounded quotient, of 53 or 54 bits
F64Renorm(s, e, k, M1) ==
    IF BBitLen(M1) = 54
    THEN [nan |-> FALSE, s |-> s, m |-> BHalf(M1), e |-> e - k + 2]
    ELSE [nan |-> FALSE, s |-> s, m |-> M1, e |-> e - k + 1]

\* r is <<remainder, 54 quotient bits>> and M0 the upper 53 of them: round
\* half to even
F64HalfEven(s, e, k, r, M0) ==
    F64Renorm(s, e, k,
              IF BOdd(r[2]) /\ (r[1] # <<>> \/ BOdd(M0)) THEN BAdd(M0, <<1>>) ELSE M0)

F64Quotient(s, e, k, r) == F64HalfEven(s, e, k, r, BHalf(r[2]))

\* 54 quotient bits of N1 / T, in three runs of 18 steps
F64Divide(s, e, k, N1, T) ==
    F64Quotient(s, e, k,
                F64LongDiv(F64LongDiv(F64LongDiv(<<N1, <<>> >>, T, 18), T, 18), T, 18))

\* big: N1 / D1 has 55 bits rather than 54
F64Align(s, e, k0, N1, D1, big) ==
    F64Divide(s, e, IF big THEN k0 - 1 ELSE k0, N1,
              BShl(IF big THEN BMulSmall(D1, 2) ELSE D1, 53))

F64Scaled(s, e, k0, N1, D1) ==
    F64Align(s, e, k0, N1, D1, BCmp(N1, BShl(D1, 54)) >= 0)

F64Scale(s, N, D, e, k0) ==
    F64Scaled(s, e, k0, IF k0 >= 0 THEN BShl(N, k0) ELSE N,
              IF k0 < 0 THEN BShl(D, 0 - k0) ELSE D)

\* the double nearest to (-1)^s * (N / D) * 2^e, ties to even (D > 0)
F64Round(s, N, D, e) ==
    IF N = <<>> THEN F64Zero
    ELSE F64Scale(s, N, D, e, 54 - BBitLen(N) + BBitLen(D))

\* the decimal literal n / 10^k, as Python reads it
F64FromDec(n, k) ==
    F64Round(IF n < 0 THEN 1 ELSE 0, BFromInt(IF n < 0 THEN 0 - n ELSE n), BPow10(k), 0)

F64FromInt(n) ==
    F64Round(IF n < 0 THEN 1 ELSE 0, BFromInt(IF n < 0 THEN 0 - n ELSE n), <<1>>, 0)

F64IsNaN(a) == a.nan

F64IsZero(a) == ~a.nan /\ a.m = <<>>

F64Neg(a) == IF a.nan \/ a.m = <<>> THEN a ELSE [a EXCEPT !.s = 1 - a.s]

F64Abs(a) == [a EXCEPT !.s = 0]

\* Na and Nb are the magnitudes at the common exponent e, c compares them
F64AddSigned(a, b, e, Na, Nb, c) ==
    IF a.s # b.s /\ c = 0 THEN F64Zero
    ELSE F64Round(IF a.s = b.s \/ c > 0 THEN a.s ELSE b.s,
                  IF a.s = b.s THEN BAdd(Na, Nb)
                  ELSE IF c > 0 THEN BSub(Na, Nb) ELSE BSub(Nb, Na),
                  <<1>>, e)

F64AddAligned(a, b, e, Na, Nb) == F64AddSigned(a, b, e, Na, Nb, BCmp(Na, Nb))

F64AddAt(a, b, e) == F64AddAligned(a, b, e, BShl(a.m, a.e - e), BShl(b.m, b.e - e))

F64Add(a, b) ==
    IF a.nan \/ b.nan THEN F64NaN
    ELSE IF a.m = <<>> THEN b
    ELSE IF b.m = <<>> THEN a
    ELSE F64AddAt(a, b, IF a.e <= b.e THEN a.e ELSE b.e)

F64Sub(a, b) == F64Add(a, F64Neg(b))

F64Mul(a, b) ==
    IF a.nan \/ b.nan THEN F64NaN
    ELSE IF a.m = <<>> \/ b.m = <<>> THEN F64Zero
    ELSE F64Round((a.s + b.s) % 2, BMul(a.m, b.m), <<1>>, a.e + b.e)

\* a / b; a zero divisor gives NaN (numpy), which also stands for the
\* ZeroDivisionError of a division of Python floats
F64Div(a, b) ==
    IF a.nan \/ b.nan \/ b.m = <<>> THEN F64NaN
    ELSE IF a.m = <<>> THEN F64Zero
    ELSE F64Round((a.s + b.s) % 2, a.m, b.m, a.e - b.e)

\* a < b on magnitudes of non-zero values
F64MagLess(a, b) ==
    \/ a.e < b.e
    \/ a.e = b.e /\ BCmp(a.m, b.m) < 0

F64Less(a, b) ==
    IF a.nan \/ b.nan THEN FALSE
    ELSE IF a.m = <<>> /\ b.m = <<>> THEN FALSE
    ELSE IF a.m = <<>> THEN b.s = 0
    ELSE IF b.m = <<>> THEN a.s = 1
    ELSE IF a.s # b.s THEN a.s = 1
    ELSE IF a.s = 0 THEN F64MagLess(a, b)
    ELSE F64MagLess(b, a)

F64Eq(a, b) == ~a.nan /\ ~b.nan /\ a = b

F64Leq(a, b) == F64Less(a, b) \/ F64Eq(a, b)

(***************************************************************************)
(* The experiment table.  A numeric literal of a cell is <<n, k>>, the     *)
(* decimal n / 10^k.  A result cell is missing (NaN), a list of            *)
(* (name, value) pairs, or text that is not a Python literal; a            *)
(* true_parameters / true_states cell is missing, a mapping, or malformed. *)
(***************************************************************************)
Methods == {"odepe", "sciml"}

Systems == {"biohydrogenation", "seir"}

NoiseLevels == {<<0, 0>>, <<1, 6>>, <<1, 2>>}

\* estimated values 0, 10, 11, 12, 0.05, 0.01, 0.5, 0.1
EstLits ==
    {<<0, 0>>, <<10, 0>>, <<11, 0>>, <<12, 0>>, <<5, 2>>, <<1, 2>>, <<5, 1>>, <<1, 1>>}

\* true values 0, 10, -10, 1e-11, 1e-10
TrueLits == {<<0, 0>>, <<10, 0>>, <<-10, 0>>, <<1, 11>>, <<1, 10>>}

\* times in seconds: 1, 2, 4, 7, 10
TimeLits == {<<1, 0>>, <<2, 0>>, <<4, 0>>, <<7, 0>>, <<10, 0>>}

Lits == EstLits \cup TrueLits \cup TimeLits

LitTable == [l \in Lits |-> F64FromDec(l[1], l[2])]

F64Lit(l) == LitTable[l]

NaNCell == [kind |-> "nan", items |-> <<>>]

BadCell == [kind |-> "bad", items |-> <<>>]

ListCell(items) == [kind |-> "list", items |-> items]

DictCell(items) == [kind |-> "dict", items |-> items]

(***************************************************************************)
(* A Python dict: a sequence of <<key, value>> with distinct keys, in      *)
(* insertion order.                                                        *)
(***************************************************************************)
DictKeys(d) == {d[i][1] : i \in 1..Len(d)}

DictHas(d, key) == \E i \in 1..Len(d) : d[i][1] = key

DictGet(d, key) == d[CHOOSE i \in 1..Len(d) : d[i][1] = key][2]

\* d[key] = value
DictSet(d, key, value) ==
    IF DictHas(d, key)
    THEN [i \in 1..Len(d) |-> IF d[i][1] = key THEN <<key, value>> ELSE d[i]]
    ELSE Append(d, <<key, value>>)

\* {**d1, **d2}, and a dict display or comprehension over the pairs d2
RECURSIVE DictUpdate(_, _)
DictUpdate(d1, d2) ==
    IF d2 = <<>> THEN d1
    ELSE DictUpdate(DictSet(d1, d2[1][1], d2[1][2]), Tail(d2))

ToFloats(items) == [i \in 1..Len(items) |-> <<items[i][1], F64Lit(items[i][2])>>]

\* the value returned, or the exception raised
Returned(v) == [exc |-> "", out |-> v]

Raised(name) == [exc |-> name, out |-> <<>>]

parse_result(cell) ==
    IF cell.kind = "nan" \/ (cell.kind = "list" /\ cell.items = <<>>)
    THEN Returned(<<>>)
    ELSE IF cell.kind = "list"
    THEN Returned(DictUpdate(<<>>, ToFloats(cell.items)))
    ELSE Raised("SyntaxError")

parse_dict(cell) ==
    IF cell.kind = "nan" \/ (cell.kind = "dict" /\ cell.items = <<>>)
    THEN Returned(<<>>)
    ELSE IF cell.kind = "dict"
    THEN Returned(DictUpdate(<<>>, ToFloats(cell.items)))
    ELSE Raised("SyntaxError")

PENALTY == F64FromDec(1000000, 0)

TINY == F64FromDec(1, 10)

\* a variant with the thresholds of SR-1 and SR-50 exchanged
SR_THRESHOLDS_exchanged ==
    [k \in {"SR-1", "SR-10", "SR-50"} |->
        IF k = "SR-1" THEN F64FromDec(50, 2)
        ELSE IF k = "SR-10" THEN F64FromDec(10, 2)
        ELSE F64FromDec(1, 2)]

SR_THRESHOLDS ==
    [k \in {"SR-1", "SR-10", "SR-50"} |->
        IF k = "SR-1" THEN F64FromDec(1, 2)
        ELSE IF k = "SR-10" THEN F64FromDec(10, 2)
        ELSE F64FromDec(50, 2)]

\* the relative error without the guard on the magnitude of the true value
param_error_always_relative(est_val, true_val) ==
    F64Div(F64Abs(F64Sub(est_val, true_val)), F64Abs(true_val))

\* the error of one matched key
param_error(est_val, true_val) ==
    IF F64Less(F64Abs(true_val), TINY)
    THEN F64Abs(F64Sub(est_val, true_val))
    ELSE F64Div(F64Abs(F64Sub(est_val, true_val)), F64Abs(true_val))

ErrTable ==
    [p \in {<<LitTable[e], LitTable[t]>> : e \in EstLits, t \in TrueLits} |->
        param_error(p[1], p[2])]

ParamError(est_val, true_val) == ErrTable[<<est_val, true_val>>]

RECURSIVE ErrorsFrom(_, _, _)
ErrorsFrom(all_true, estimated, i) ==
    IF i > Len(all_true) THEN <<>>
    ELSE LET key == all_true[i][1]
         IN  IF ~DictHas(estimated, key)
             THEN ErrorsFrom(all_true, estimated, i + 1)
             ELSE <<ParamError(DictGet(estimated, key), all_true[i][2])>>
                  \o ErrorsFrom(all_true, estimated, i + 1)
\* a variant that charges the penalty for a true key the estimate lacks
calculate_individual_param_errors_penalise(estimated, true_params, true_states) ==
    LET all_true == DictUpdate(true_params, true_states)
    IN  [i \in 1..Len(all_true) |->
            IF DictHas(estimated, all_true[i][1])
            THEN ParamError(DictGet(estimated, all_true[i][1]), all_true[i][2])
            ELSE PENALTY]

calculate_individual_param_errors(estimated, true_params, true_states) ==
    LET all_true == DictUpdate(true_params, true_states)
    IN  ErrorsFrom(all_true, estimated, 1)

(***************************************************************************)
(* numpy reductions over a non-empty list of doubles                       *)
(***************************************************************************)
Range(a) == {a[i] : i \in 1..Len(a)}

ErrVals == {ErrTable[p] : p \in DOMAIN ErrTable} \cup {PENALTY}

\* (a + b) / 2, the mean of the two middle elements
f64_mid(a, b) == F64Div(F64Add(a, b), F64FromInt(2))

MidTable ==
    [p \in {q \in ErrVals \X ErrVals : F64Leq(q[1], q[2])} |-> f64_mid(p[1], p[2])]

F64Mid(a, b) == MidTable[<<a, b>>]

\* the k-th smallest element
OrderStat(a, k) ==
    CHOOSE v \in Range(a) :
        /\ Cardinality({i \in 1..Len(a) : F64Less(a[i], v)}) < k
        /\ k <= Cardinality({i \in 1..Len(a) : F64Leq(a[i], v)})

np_median(a) ==
    IF Len(a) = 0 \/ \E i \in 1..Len(a) : a[i].nan THEN F64NaN
    ELSE IF Len(a) % 2 = 1 THEN OrderStat(a, (Len(a) + 1) \div 2)
    ELSE F64Mid(OrderStat(a, Len(a) \div 2), OrderStat(a, Len(a) \div 2 + 1))

np_max(a) ==
    IF \E i \in 1..Len(a) : a[i].nan THEN F64NaN
    ELSE CHOOSE v \in Range(a) : \A i \in 1..Len(a) : F64Leq(a[i], v)

RECURSIVE F64SumFrom(_, _, _)
F64SumFrom(a, i, acc) ==
    IF i > Len(a) \/ acc.nan THEN acc
    ELSE F64SumFrom(a, i + 1, F64Add(acc, a[i]))

np_mean_compute(a) == F64Div(F64SumFrom(a, 1, F64Zero), F64FromInt(Len(a)))

\* (count / n) * 100
percent_compute(count, n) ==
    F64Mul(F64Div(F64FromInt(count), F64FromInt(n)), F64FromInt(100))

\* v * 100
times100_compute(v) == F64Mul(v, F64FromInt(100))

(***************************************************************************)
(* scripts/shared_metrics.py over a dataframe (a sequence of rows)         *)
(***************************************************************************)
Row(run, name, noise, has_result, result, true_parameters, true_states, time) ==
    [run |-> run, name |-> name, noise |-> noise, has_result |-> has_result,
     result |-> result, true_parameters |-> true_parameters,
     true_states |-> true_states, time |-> time]

\* df[df['run'] == run_name]
SelectRun(df, run_name) == SelectSeq(df, LAMBDA r : r.run = run_name)

\* df[df['noise'] == noise]
SelectNoise(df, noise) == SelectSeq(df, LAMBDA r : r.noise = noise)

\* df[df['name'] == system]
SelectName(df, system) == SelectSeq(df, LAMBDA r : r.name = system)

\* the first exception among the results rs, "" when there is none
FirstExc(rs) ==
    IF \A i \in 1..Len(rs) : rs[i].exc = "" THEN ""
    ELSE rs[CHOOSE i \in 1..Len(rs) :
                /\ rs[i].exc # ""
                /\ \A j \in 1..(i - 1) : rs[j].exc = ""].exc

RECURSIVE Concat(_, _, _)
Concat(ss, lo, hi) ==
    IF lo > hi THEN <<>>
    ELSE IF lo = hi THEN ss[lo]
    ELSE Concat(ss, lo, (lo + hi) \div 2) \o Concat(ss, (lo + hi) \div 2 + 1, hi)

\* what the loop body computes from the three parsed cells
param_errors_of(estimated, true_params, true_states) ==
    IF FirstExc(<<estimated, true_params, true_states>>) # ""
    THEN Raised(FirstExc(<<estimated, true_params, true_states>>))
    ELSE Returned(calculate_individual_param_errors(
                      estimated.out, true_params.out, true_states.out))

\* the per-parameter errors of a row with a result
row_param_errors(row) ==
    param_errors_of(parse_result(row.result), parse_dict(row.true_parameters),
                    parse_dict(row.true_states))

penalties_of(true_params, true_states) ==
    IF FirstExc(<<true_params, true_states>>) # ""
    THEN Raised(FirstExc(<<true_params, true_states>>))
    ELSE Returned([i \in 1..(Len(true_params.out) + Len(true_states.out)) |-> PENALTY])

\* a variant that counts the true parameters only, not the true states
row_penalties_params_only(row) ==
    LET true_params == parse_dict(row.true_parameters)
        true_states == parse_dict(row.true_states)
        exc         == FirstExc(<<true_params, true_states>>)
    IN  IF exc # "" THEN Raised(exc)
        ELSE Returned([i \in 1..Len(true_params.out) |-> PENALTY])

\* one penalty for each parameter that would have been estimated
row_penalties(row) ==
    penalties_of(parse_dict(row.true_parameters), parse_dict(row.true_states))

\* a variant that reads the result column whatever has_result says
pooled_row_parse_always(row) == row_param_errors(row)

\* what one iteration of the loop of calculate_pooled_errors extends the pool by
pooled_row(row) ==
    IF row.has_result THEN row_param_errors(row) ELSE row_penalties(row)

\* a variant that puts the entries of each row before those of the rows above it
Extended_newest_first(adds) ==
    IF FirstExc(adds) # "" THEN Raised(FirstExc(adds))
    ELSE Returned(Concat([i \in 1..Len(adds) |-> adds[Len(adds) + 1 - i].out],
                         1, Len(adds)))

\* all_errors after the loop has extended it by adds[1], adds[2], ...
Extended(adds) ==
    IF FirstExc(adds) # "" THEN Raised(FirstExc(adds))
    ELSE Returned(Concat([i \in 1..Len(adds) |-> adds[i].out], 1, Len(adds)))

\* the loop of calculate_pooled_errors over the rows selected
pooled_rows(rows) == Extended([i \in 1..Len(rows) |-> pooled_row(rows[i])])

\* a variant that also penalises a row whose estimate matches no true key
calculate_pooled_errors_penalise_unmatched(df, run_name) ==
    LET rows == IF run_name # "None" THEN SelectRun(df, run_name) ELSE df
        adds == [i \in 1..Len(rows) |->
                    IF pooled_row(rows[i]).exc = "" /\ pooled_row(rows[i]).out = <<>>
                    THEN row_penalties(rows[i]) ELSE pooled_row(rows[i])]
        exc  == FirstExc(adds)
    IN  IF exc # "" THEN Raised(exc)
        ELSE Returned(Concat([i \in 1..Len(adds) |-> adds[i].out], 1, Len(adds)))

calculate_pooled_errors(df, run_name) ==
    pooled_rows(IF run_name # "None" THEN SelectRun(df, run_name) ELSE df)

median_of_pool(all_errors) ==
    IF all_errors.exc # "" THEN all_errors
    ELSE Returned(IF Len(all_errors.out) > 0 THEN np_median(all_errors.out)
                  ELSE F64NaN)

\* a variant that returns the median as a percentage
calculate_median_error_percent(df, run_name) ==
    LET all_errors == calculate_pooled_errors(df, run_name)
    IN  IF all_errors.exc # "" THEN all_errors
        ELSE Returned(IF Len(all_errors.out) > 0
                      THEN F64Mul(np_median(all_errors.out), F64FromInt(100))
                      ELSE F64NaN)

calculate_median_error(df, run_name) ==
    median_of_pool(calculate_pooled_errors(df, run_name))

\* a variant that also counts the entries equal to the threshold
CountBelow_inclusive(a, threshold) ==
    Cardinality({i \in 1..Len(a) : F64Leq(a[i], threshold)})

CountBelow(a, threshold) ==
    Cardinality({i \in 1..Len(a) : F64Less(a[i], threshold)})

(***************************************************************************)
(* The tables explored.  One-row tables range over every combination of    *)
(* the cell contents below; tables of up to MaxRows rows are built from    *)
(* CoreRows; BulkFrame(k, n) is a table of n one-parameter trials of which *)
(* the first k are estimated with error 0.01 and the others failed, for n  *)
(* one less than BulkLen and n equal to BulkLen.                           *)
(***************************************************************************)
MaxRows == 3

BulkLen == 100

ResultCells ==
    {NaNCell, BadCell, ListCell(<<>>)}
    \cup {ListCell(<< <<"a", e>> >>) : e \in EstLits}
    \cup {ListCell(<< <<"a", <<11, 0>> >>, <<"b", e>> >>) : e \in {<<5, 2>>, <<0, 0>>}}
    \cup {ListCell(<< <<"b", <<5, 2>> >>, <<"a", <<11, 0>> >> >>),
          ListCell(<< <<"a", <<11, 0>> >>, <<"b", <<1, 1>> >>, <<"c", <<11, 0>> >> >>),
          ListCell(<< <<"x7", <<10, 0>> >> >>),
          ListCell(<< <<"a", <<10, 0>> >>, <<"a", <<12, 0>> >> >>)}

TrueParamCells ==
    {NaNCell, BadCell, DictCell(<<>>)}
    \cup {DictCell(<< <<"a", t>> >>) : t \in TrueLits}
    \cup {DictCell(<< <<"a", <<10, 0>> >>, <<"b", <<0, 0>> >> >>),
          DictCell(<< <<"a", <<10, 0>> >>, <<"b", <<0, 0>> >>, <<"c", <<10, 0>> >> >>)}

TrueStateCells ==
    {DictCell(<<>>),
     DictCell(<< <<"x7", <<10, 0>> >> >>),
     DictCell(<< <<"a", <<0, 0>> >> >>),
     DictCell(<< <<"x7", <<10, 0>> >>, <<"x8", <<0, 0>> >> >>)}

TrialRows ==
    {Row("odepe", "seir", <<0, 0>>, h, r, tp, ts, <<10, 0>>) :
        h \in BOOLEAN, r \in ResultCells, tp \in TrueParamCells, ts \in TrueStateCells}

CoreRows ==
    {Row("odepe", "seir", <<0, 0>>, TRUE,
         ListCell(<< <<"a", <<11, 0>> >>, <<"b", <<5, 2>> >> >>),
         DictCell(<< <<"a", <<10, 0>> >>, <<"b", <<0, 0>> >> >>), DictCell(<<>>),
         <<1, 0>>),
     Row("odepe", "seir", <<1, 6>>, FALSE, NaNCell,
         DictCell(<< <<"a", <<10, 0>> >>, <<"b", <<0, 0>> >>, <<"c", <<10, 0>> >> >>),
         DictCell(<< <<"x7", <<10, 0>> >>, <<"x8", <<0, 0>> >> >>), <<10, 0>>),
     Row("odepe", "biohydrogenation", <<0, 0>>, TRUE, ListCell(<<>>),
         DictCell(<< <<"a", <<10, 0>> >> >>), DictCell(<< <<"x7", <<10, 0>> >> >>),
         <<2, 0>>),
     Row("odepe", "biohydrogenation", <<1, 6>>, TRUE,
         ListCell(<< <<"a", <<12, 0>> >> >>),
         DictCell(<< <<"a", <<10, 0>> >> >>), DictCell(<<>>), <<4, 0>>),
     Row("sciml", "seir", <<0, 0>>, TRUE, ListCell(<< <<"a", <<10, 0>> >> >>),
         DictCell(<< <<"a", <<10, 0>> >>, <<"b", <<0, 0>> >> >>), DictCell(<<>>),
         <<7, 0>>)}

BulkGood ==
    Row("odepe", "seir", <<0, 0>>, TRUE, ListCell(<< <<"a", <<1, 2>> >> >>),
        DictCell(<< <<"a", <<0, 0>> >> >>), DictCell(<<>>), <<1, 0>>)

BulkBad ==
    Row("odepe", "seir", <<0, 0>>, FALSE, NaNCell,
        DictCell(<< <<"a", <<0, 0>> >> >>), DictCell(<<>>), <<10, 0>>)

BulkFrame(k, n) == [i \in 1..n |-> IF i <= k THEN BulkGood ELSE BulkBad]

BulkFrames == UNION {{BulkFrame(k, n) : k \in 0..n} : n \in (BulkLen - 1)..BulkLen}

RECURSIVE SeqsUpTo(_, _)
SeqsUpTo(S, n) ==
    IF n = 0 THEN {<<>>}
    ELSE LET shorter == SeqsUpTo(S, n - 1)
         IN  shorter \cup {Append(q, r) : q \in shorter, r \in S}

DataFrames == {<<r>> : r \in TrialRows} \cup SeqsUpTo(CoreRows, MaxRows)

AllRows == TrialRows \cup CoreRows \cup {BulkGood, BulkBad}

(***************************************************************************)
(* Results of the arithmetic on the values that occur, computed once       *)
(***************************************************************************)
RowErrorSeqs ==
    {row_param_errors(r).out : r \in {q \in AllRows : row_param_errors(q).exc = ""}}
    \ {<<>>}

MeanTable == [a \in RowErrorSeqs |-> np_mean_compute(a)]

np_mean(a) == MeanTable[a]

\* the per-run values that occur: the means and the penalty
MeanVals == {MeanTable[a] : a \in DOMAIN MeanTable} \cup {PENALTY}

MeanMidTable ==
    [p \in {q \in MeanVals \X MeanVals : F64Leq(q[1], q[2])} |-> f64_mid(p[1], p[2])]

\* np.median of per-run values
np_median_of_runs(a) ==
    IF Len(a) = 0 \/ \E i \in 1..Len(a) : a[i].nan THEN F64NaN
    ELSE IF Len(a) % 2 = 1 THEN OrderStat(a, (Len(a) + 1) \div 2)
    ELSE MeanMidTable[<<OrderStat(a, Len(a) \div 2), OrderStat(a, Len(a) \div 2 + 1)>>]

\* no row adds more than five entries to a pool
MaxPool == 5 * (MaxRows + 1)

\* the lengths of the pools and the counts that occur
PoolSizes == (1..MaxPool) \cup ((BulkLen - 1)..BulkLen)

PercentTable ==
    [p \in {q \in (0..(MaxPool + BulkLen)) \X PoolSizes : q[1] <= q[2]} |->
        percent_compute(p[1], p[2])]

Percent(count, n) == PercentTable[<<count, n>>]

MedianVals == ErrVals \cup {MidTable[p] : p \in DOMAIN MidTable} \cup {F64NaN}

Times100Table == [v \in MedianVals |-> times100_compute(v)]

Times100(v) == Times100Table[v]

success_rates_of_pool(all_errors) ==
    IF all_errors.exc # "" THEN all_errors
    ELSE IF Len(all_errors.out) = 0
    THEN Returned([key \in DOMAIN SR_THRESHOLDS |-> F64NaN])
    ELSE Returned([key \in DOMAIN SR_THRESHOLDS |->
                      Percent(CountBelow(all_errors.out, SR_THRESHOLDS[key]),
                              Len(all_errors.out))])

calculate_success_rates(df, run_name) ==
    success_rates_of_pool(calculate_pooled_errors(df, run_name))

RunRecord(system, noise, max_error, median_error, mean_error, failed) ==
    [system |-> system, noise |-> noise, max_error |-> max_error,
     median_error |-> median_error, mean_error |-> mean_error, failed |-> failed]

\* a variant that reports the mean of the errors as their median
run_record_of_mean_as_median(row, param_errors) ==
    IF param_errors.exc # "" THEN param_errors
    ELSE IF Len(param_errors.out) > 0
    THEN Returned(RunRecord(row.name, row.noise,
                            np_max(param_errors.out),
                            np_mean(param_errors.out),
                            np_mean(param_errors.out), FALSE))
    ELSE Returned(RunRecord(row.name, row.noise, PENALTY, PENALTY, PENALTY, TRUE))

\* the record of a row with a result, from its per-parameter errors
run_record_of(row, param_errors) ==
    IF param_errors.exc # "" THEN param_errors
    ELSE IF Len(param_errors.out) > 0
    THEN Returned(RunRecord(row.name, row.noise,
                            np_max(param_errors.out),
                            np_median(param_errors.out),
                            np_mean(param_errors.out), FALSE))
    ELSE Returned(RunRecord(row.name, row.noise, PENALTY, PENALTY, PENALTY, TRUE))

\* a variant that reports a row without matched keys as a run without error
run_level_row_skip(row) ==
    IF row.has_result
    THEN LET param_errors == row_param_errors(row)
         IN  IF param_errors.exc # "" THEN param_errors
             ELSE IF Len(param_errors.out) > 0
             THEN Returned(RunRecord(row.name, row.noise,
                                     np_max(param_errors.out),
                                     np_median(param_errors.out),
                                     np_mean(param_errors.out), FALSE))
             ELSE Returned(RunRecord(row.name, row.noise,
                                     F64Zero, F64Zero, F64Zero, FALSE))
    ELSE Returned(RunRecord(row.name, row.noise, PENALTY, PENALTY, PENALTY, TRUE))

\* the record one iteration of the loop of calculate_run_level_metrics appends
run_level_row(row) ==
    IF row.has_result THEN run_record_of(row, row_param_errors(row))
    ELSE Returned(RunRecord(row.name, row.noise, PENALTY, PENALTY, PENALTY, TRUE))

\* run_metrics after the loop has appended recs[1], recs[2], ...
Appended(recs) ==
    IF FirstExc(recs) # "" THEN Raised(FirstExc(recs))
    ELSE Returned([i \in 1..Len(recs) |-> recs[i].out])

run_level_rows(method_df) ==
    Appended([i \in 1..Len(method_df) |-> run_level_row(method_df[i])])

\* a variant that leaves out the rows without a result
calculate_run_level_metrics_results_only(df, run_name) ==
    LET method_df == SelectSeq(SelectRun(df, run_name), LAMBDA r : r.has_result)
        recs      == [i \in 1..Len(method_df) |-> run_level_row(method_df[i])]
        exc       == FirstExc(recs)
    IN  IF exc # "" THEN Raised(exc)
        ELSE Returned([i \in 1..Len(recs) |-> recs[i].out])

\* the records of the returned frame; a frame of no records has no columns
calculate_run_level_metrics(df, run_name) == run_level_rows(SelectRun(df, run_name))

(***************************************************************************)
(* scripts/generate_system_performance_tables.py: the median of the        *)
(* greatest errors of the runs of one method, noise level and system       *)
(***************************************************************************)
\* np.max(param_errors) if len(param_errors) > 0 else FAILURE_PENALTY
run_max_of(param_errors) ==
    IF param_errors.exc # "" THEN param_errors
    ELSE IF Len(param_errors.out) > 0 THEN Returned(np_max(param_errors.out))
    ELSE Returned(F64FromDec(1000000, 0))

\* a variant that leaves a run without a result out
by_system_rows_results_only(subset_df) ==
    Appended([i \in 1..Len(SelectSeq(subset_df, LAMBDA r : r.has_result)) |->
                 run_max_of(row_param_errors(
                     SelectSeq(subset_df, LAMBDA r : r.has_result)[i]))])

by_system_row(row) ==
    IF row.has_result THEN run_max_of(row_param_errors(row))
    ELSE Returned(F64FromDec(1000000, 0))

by_system_rows(subset_df) ==
    Appended([i \in 1..Len(subset_df) |-> by_system_row(subset_df[i])])

\* np.median(run_metrics) if len(run_metrics) > 0 else np.nan
by_system_median_of(run_metrics) ==
    IF run_metrics.exc # "" THEN run_metrics
    ELSE IF Len(run_metrics.out) > 0 THEN Returned(np_median(run_metrics.out))
    ELSE Returned(F64NaN)

calculate_run_level_metrics_by_system(df, run_name, noise_level, system) ==
    by_system_median_of(by_system_rows(
        SelectName(SelectNoise(SelectRun(df, run_name), noise_level), system)))

(***************************************************************************)
(* scripts/shared_metrics.py: all metrics of a method, and the views by    *)
(* noise level and by system                                               *)
(***************************************************************************)
\* the time column of the rows, as doubles
TimesOf(rows) == [i \in 1..Len(rows) |-> F64Lit(rows[i].time)]

\* Series.mean() of a column without missing entries: their sum divided by
\* their number, NaN for a column of no entries
series_mean_of(times) ==
    IF Len(times) = 0 THEN F64NaN
    ELSE F64Div(F64SumFrom(times, 1, F64Zero), F64FromInt(Len(times)))

\* method_df['time'].mean()
series_mean(method_df) == series_mean_of(TimesOf(method_df))

all_metrics_of(sr, median_err, mean_time, n_total) ==
    IF sr.exc # "" THEN sr
    ELSE IF median_err.exc # "" THEN median_err
    ELSE Returned([sr_1 |-> sr.out["SR-1"], sr_10 |-> sr.out["SR-10"],
                   sr_50 |-> sr.out["SR-50"], median_error |-> median_err.out,
                   mean_time |-> mean_time, n_total |-> n_total])

\* a variant that counts and times the rows with a result only
calculate_all_metrics_successful(df, run_name) ==
    all_metrics_of(calculate_success_rates(df, run_name),
                   calculate_median_error(df, run_name),
                   series_mean(SelectSeq(SelectRun(df, run_name),
                                         LAMBDA r : r.has_result)),
                   Len(SelectSeq(SelectRun(df, run_name), LAMBDA r : r.has_result)))

calculate_all_metrics(df, run_name) ==
    all_metrics_of(calculate_success_rates(df, run_name),
                   calculate_median_error(df, run_name),
                   series_mean(SelectRun(df, run_name)),
                   Len(SelectRun(df, run_name)))

\* df['noise'].unique()
NoisesOf(df) == {df[i].noise : i \in 1..Len(df)}

\* df['name'].unique()
NamesOf(df) == {df[i].name : i \in 1..Len(df)}

\* the dict a loop has filled with one result per key, or the exception one of
\* them raised
Collected(results) ==
    IF \A k \in DOMAIN results : results[k].exc = ""
    THEN Returned([k \in DOMAIN results |-> results[k].out])
    ELSE Raised(results[CHOOSE k \in DOMAIN results : results[k].exc # ""].exc)

\* a variant that slices by noise level only, not by method
calculate_performance_by_noise_all_runs(df, run_name) ==
    Collected([noise \in NoisesOf(df) |->
                  calculate_median_error(SelectNoise(df, noise), "None")])

calculate_performance_by_noise(df, run_name) ==
    Collected([noise \in NoisesOf(df) |->
                  calculate_median_error(
                      SelectNoise(SelectRun(df, run_name), noise), "None")])

calculate_performance_by_system(df, run_name, noise_level) ==
    Collected([system \in NamesOf(df) |->
                  calculate_median_error(
                      SelectName(SelectNoise(SelectRun(df, run_name), noise_level),
                                 system), "None")])

(***************************************************************************)
(* compare_error_methods.py: Method B, its own copy of the pooling         *)
(***************************************************************************)
\* no shortcut for the text '{}', which ast.literal_eval reads as {}
parse_true_params(cell) ==
    IF cell.kind = "nan" THEN Returned(<<>>)
    ELSE IF cell.kind = "dict"
    THEN Returned(DictUpdate(<<>>, ToFloats(cell.items)))
    ELSE Raised("SyntaxError")

parse_true_states(cell) ==
    IF cell.kind = "nan" \/ (cell.kind = "dict" /\ cell.items = <<>>)
    THEN Returned(<<>>)
    ELSE IF cell.kind = "dict"
    THEN Returned(DictUpdate(<<>>, ToFloats(cell.items)))
    ELSE Raised("SyntaxError")

\* a variant that adds one penalty for a row without a result
method_b_row_one_penalty(row) ==
    IF row.has_result
    THEN param_errors_of(parse_result(row.result),
                         parse_true_params(row.true_parameters),
                         parse_true_states(row.true_states))
    ELSE Returned(<<PENALTY>>)

\* what one iteration of the loop extends all_param_errors by
method_b_row(row) ==
    IF row.has_result
    THEN param_errors_of(parse_result(row.result),
                         parse_true_params(row.true_parameters),
                         parse_true_states(row.true_states))
    ELSE penalties_of(parse_true_params(row.true_parameters),
                      parse_true_states(row.true_states))

method_b_rows(method_df) ==
    Extended([i \in 1..Len(method_df) |-> method_b_row(method_df[i])])

\* (median_value, all_param_errors); the median of no entries is nan
method_b_of(all_param_errors) ==
    IF all_param_errors.exc # "" THEN all_param_errors
    ELSE Returned([median_value |-> np_median(all_param_errors.out),
                   all_param_errors |-> all_param_errors.out])

method_b_per_parameter_pooling(df, run_name) ==
    method_b_of(method_b_rows(SelectRun(df, run_name)))

\* calculate_mean_error_per_run: np.nan for no error, else np.mean
mean_error_of(errors) ==
    IF errors.exc # "" THEN errors
    ELSE IF Len(errors.out) = 0 THEN Returned(F64NaN)
    ELSE Returned(np_mean(errors.out))

\* mean_error if not np.isnan(mean_error) else penalty
per_run_error_of(mean_error) ==
    IF mean_error.exc # "" THEN mean_error
    ELSE IF F64IsNaN(mean_error.out) THEN Returned(F64FromDec(1000000, 0))
    ELSE mean_error

\* a variant that takes the greatest error of a run
method_a_row_max(row) ==
    IF row.has_result
    THEN run_max_of(param_errors_of(parse_result(row.result),
                                    parse_true_params(row.true_parameters),
                                    parse_true_states(row.true_states)))
    ELSE Returned(F64FromDec(1000000, 0))

method_a_row(row) ==
    IF row.has_result
    THEN per_run_error_of(mean_error_of(
             param_errors_of(parse_result(row.result),
                             parse_true_params(row.true_parameters),
                             parse_true_states(row.true_states))))
    ELSE Returned(F64FromDec(1000000, 0))

method_a_of(per_run_errors) ==
    IF per_run_errors.exc # "" THEN per_run_errors
    ELSE Returned([median_value |-> np_median_of_runs(per_run_errors.out),
                   per_run_errors |-> per_run_errors.out])

method_a_per_run_median(df, run_name) ==
    method_a_of(Appended([i \in 1..Len(SelectRun(df, run_name)) |->
                             method_a_row(SelectRun(df, run_name)[i])]))

(***************************************************************************)
(* scripts/generate_corrected_tables_1_2.py, generate_table_1: the three   *)
(* Success@X% cells of the row of one method                               *)
(***************************************************************************)
\* floor(x / 2^k), limb by limb
BShr(x, k) ==
    BNorm([i \in 1..(Len(x) - k \div 15) |->
              (x[i + (k \div 15)] \div Pow2(k % 15))
              + (BLimb(x, i + (k \div 15) + 1) % Pow2(k % 15)) * Pow2(15 - (k % 15))])

RECURSIVE BToIntFrom(_, _)
BToIntFrom(x, i) == IF i > Len(x) THEN 0 ELSE x[i] + Base * BToIntFrom(x, i + 1)

\* q or q + 1, whichever is nearer to the quotient whose floor is q and whose
\* remainder is twice_r / 2; the even one where both are as near
BNearest(q, twice_r, D) ==
    IF BCmp(twice_r, D) > 0 \/ (BCmp(twice_r, D) = 0 /\ BOdd(q))
    THEN BAdd(q, <<1>>) ELSE q

BRoundShift(N, k, q) == BNearest(q, BShl(BSub(N, BShl(q, k)), 1), BShl(<<1>>, k))

\* N / 2^k rounded to an integer
BDivPow2(N, k) == BRoundShift(N, k, BShr(N, k))

\* the number of tenths nearest to |v|
Tenths(v) ==
    BToIntFrom(IF v.e >= 0 THEN BShl(BMulSmall(v.m, 10), v.e)
               ELSE BDivPow2(BMulSmall(v.m, 10), 0 - v.e), 1)

FixedText(sign, q) == sign \o ToString(q \div 10) \o "." \o ToString(q % 10)

\* f"{v:.1f}"
format_1f(v) ==
    IF v.nan THEN "nan" ELSE FixedText(IF v.s = 1 THEN "-" ELSE "", Tenths(v))

\* the literals 0.01, 0.10 and 0.50 of generate_table_1
table_1_thresholds ==
    [success_1pct |-> F64FromDec(1, 2), success_10pct |-> F64FromDec(10, 2),
     success_50pct |-> F64FromDec(50, 2)]

\* a variant that counts the runs by their median error
MaxErrors_median(run_df) == [i \in 1..Len(run_df) |-> run_df[i].median_error]

MaxErrors(run_df) == [i \in 1..Len(run_df) |-> run_df[i].max_error]

\* (run_df['max_error'] < threshold).sum() / total * 100, written with one
\* decimal; a frame of no records has no column 'max_error'
table_1_success_of(run_df) ==
    IF run_df.exc # "" THEN run_df
    ELSE IF Len(run_df.out) = 0 THEN Raised("KeyError")
    ELSE Returned([k \in DOMAIN table_1_thresholds |->
                      format_1f(Percent(CountBelow(MaxErrors(run_df.out),
                                                   table_1_thresholds[k]),
                                        Len(run_df.out)))])

table_1_success(df, run_name) ==
    table_1_success_of(calculate_run_level_metrics(df, run_name))

(***************************************************************************)
(* audit_all_tables.py: its own copies of the pooled computation           *)
(***************************************************************************)
audit_pooled_row(row) ==
    IF row.has_result THEN row_param_errors(row) ELSE row_penalties(row)

audit_pooled_rows(method_df) ==
    Extended([i \in 1..Len(method_df) |-> audit_pooled_row(method_df[i])])

audit_pool(df, run_name) == audit_pooled_rows(SelectRun(df, run_name))

\* count / len * 100 on numpy scalars: 0 / 0 is nan (with a warning)
audit_rate(all_errors, threshold) ==
    IF Len(all_errors) = 0 THEN F64NaN
    ELSE Percent(CountBelow(all_errors, threshold), Len(all_errors))

\* the literals 0.01, 0.10 and 0.50 of calculate_metrics
audit_thresholds ==
    [sr_1 |-> F64FromDec(1, 2), sr_10 |-> F64FromDec(10, 2), sr_50 |-> F64FromDec(50, 2)]

audit_metrics_of(all_errors, method_df) ==
    IF all_errors.exc # "" THEN all_errors
    ELSE Returned([sr_1 |-> audit_rate(all_errors.out, audit_thresholds.sr_1),
                   sr_10 |-> audit_rate(all_errors.out, audit_thresholds.sr_10),
                   sr_50 |-> audit_rate(all_errors.out, audit_thresholds.sr_50),
                   median_error |-> Times100(np_median(all_errors.out)),
                   mean_time |-> series_mean(method_df),
                   n_total |-> Len(method_df)])

audit_calculate_metrics(df, run_name) ==
    audit_metrics_of(audit_pool(df, run_name), SelectRun(df, run_name))

audit_median_of(all_errors) ==
    IF all_errors.exc # "" THEN all_errors
    ELSE Returned(Times100(np_median(all_errors.out)))

calculate_median_error_only(df, run_name) == audit_median_of(audit_pool(df, run_name))

(***************************************************************************)
(* scripts/generate_all_final_figures.py: its copy of the run-level        *)
(* computation                                                             *)
(***************************************************************************)
FAILURE_PENALTY == F64FromDec(1000000, 0)

figures_run_record_of(row, param_errors) ==
    IF param_errors.exc # "" THEN param_errors
    ELSE IF Len(param_errors.out) > 0
    THEN Returned(RunRecord(row.name, row.noise,
                            np_max(param_errors.out),
                            np_median(param_errors.out),
                            np_mean(param_errors.out), FALSE))
    ELSE Returned(RunRecord(row.name, row.noise, FAILURE_PENALTY,
                            FAILURE_PENALTY, FAILURE_PENALTY, TRUE))

figures_run_level_row(row) ==
    IF row.has_result THEN figures_run_record_of(row, row_param_errors(row))
    ELSE Returned(RunRecord(row.name, row.noise, FAILURE_PENALTY,
                            FAILURE_PENALTY, FAILURE_PENALTY, TRUE))

figures_run_level_rows(method_df) ==
    Appended([i \in 1..Len(method_df) |-> figures_run_level_row(method_df[i])])

figures_calculate_run_level_metrics(df, run_name) ==
    figures_run_level_rows(SelectRun(df, run_name))

(***************************************************************************)
(* scripts/generate_all_final_figures.py, figure_2_noise_degradation: the  *)
(* body of the loop over the noise levels for one method                   *)
(***************************************************************************)
\* np.median(run_df['max_error']) * 100; a frame without columns has no
\* 'max_error'
median_max_of(run_df) ==
    IF run_df.exc # "" THEN run_df
    ELSE IF Len(run_df.out) = 0 THEN Raised("KeyError")
    ELSE Returned(Times100(np_median(
             [i \in 1..Len(run_df.out) |-> run_df.out[i].max_error])))

figure_2_median_max(df, method, noise) ==
    median_max_of(figures_calculate_run_level_metrics(
                      SelectNoise(SelectRun(df, method), noise), method))

(***************************************************************************)
(* audit_all_tables.py: the audit of Table 1 and Table 2.  A published     *)
(* table is a file that may be missing; of its lines, those that carry the *)
(* label of a method, each with the cells that follow the label; a cell is *)
(* a decimal <<n, k>> or text that is not a number.                        *)
(***************************************************************************)
MissingFile == [exists |-> FALSE, lines |-> <<>>]

TexFile(lines) == [exists |-> TRUE, lines |-> lines]

TexLine(method, cells) == [method |-> method, cells |-> cells]

Num(n, k) == [numeric |-> TRUE, lit |-> <<n, k>>]

NotNum == [numeric |-> FALSE, lit |-> <<>>]

\* float(parts[i].strip())
python_float(parts, i) ==
    IF i > Len(parts) THEN Raised("IndexError")
    ELSE IF ~parts[i].numeric THEN Raised("ValueError")
    ELSE IF parts[i].lit = <<>> THEN Returned(parts[i].value)
    ELSE Returned(F64FromDec(parts[i].lit[1], parts[i].lit[2]))

line_floats(parts) == [i \in 1..5 |-> python_float(parts, i)]

line_values(floats) ==
    IF FirstExc(floats) # "" THEN Raised(FirstExc(floats))
    ELSE Returned([i \in 1..5 |-> floats[i].out])

\* values[key] = v
Put(values, key, v) ==
    [k \in DOMAIN values \cup {key} |-> IF k = key THEN v ELSE values[k]]

table1_record(f) ==
    [sr_1 |-> f[1], sr_10 |-> f[2], sr_50 |-> f[3], median_error |-> f[4],
     mean_time |-> f[5]]

RECURSIVE extract_table1_lines(_, _, _)
extract_table1_lines(lines, i, values) ==
    IF i > Len(lines) THEN Returned(values)
    ELSE IF line_values(line_floats(lines[i].cells)).exc # ""
    THEN line_values(line_floats(lines[i].cells))
    ELSE extract_table1_lines(lines, i + 1,
             Put(values, lines[i].method,
                 table1_record(line_values(line_floats(lines[i].cells)).out)))

extract_table1_values(file) ==
    IF ~file.exists THEN Raised("FileNotFoundError")
    ELSE extract_table1_lines(file.lines, 1, <<>>)

RECURSIVE extract_table2_lines(_, _, _)
extract_table2_lines(lines, i, values) ==
    IF i > Len(lines) THEN Returned(values)
    ELSE IF line_values(line_floats(lines[i].cells)).exc # ""
    THEN line_values(line_floats(lines[i].cells))
    ELSE extract_table2_lines(lines, i + 1,
             Put(values, lines[i].method,
                 line_values(line_floats(lines[i].cells)).out))

extract_table2_values(file) ==
    IF ~file.exists THEN Raised("FileNotFoundError")
    ELSE extract_table2_lines(file.lines, 1, <<>>)

audit_methods == <<"odepe", "odepe_polish", "sciml", "amigo2_0_10", "amigo2_0_100">>

method_names ==
    [odepe |-> "ODEPE-GPR", odepe_polish |-> "ODEPE-GPR (polished)",
     sciml |-> "SciML", amigo2_0_10 |-> "AMIGO2 [0,10]",
     amigo2_0_100 |-> "AMIGO2 [0,100]"]

table1_metrics == <<"sr_1", "sr_10", "sr_50", "median_error", "mean_time">>

\* noise_levels = [0, 1e-8, 1e-6, 1e-4, 1e-2] and their labels
noise_levels == << <<0, 0>>, <<1, 8>>, <<1, 6>>, <<1, 4>>, <<1, 2>> >>

noise_labels == <<"0", "10^-8", "10^-6", "10^-4", "10^-2">>

\* pass k of the two nested loops: the position in the outer loop over the
\* methods, the method, and the position in the inner loop
outer_at(k) == ((k - 1) \div 5) + 1

method_at(k) == audit_methods[outer_at(k)]

slot_at(k) == ((k - 1) % 5) + 1

\* a variant with the tolerance of the percentages for every metric
table1_tolerance_uniform(metric) == F64FromDec(1, 1)

\* tolerance = 1.0 if metric == 'mean_time' else 0.1
table1_tolerance(metric) ==
    IF metric = "mean_time" THEN F64FromDec(10, 1) ELSE F64FromDec(1, 1)

table2_tolerance == F64FromDec(1, 1)

\* one pass of the inner loop: the line printed, with "check" for the mark
\* of a match and "cross" for the other, and whether a discrepancy is
\* recorded
compared(table, method, metric, table_val, calc_val, diff, tolerance) ==
    [table |-> table, method |-> method_names[method], metric |-> metric,
     table_val |-> table_val, calc_val |-> calc_val, diff |-> diff,
     match_symbol |-> IF F64Less(diff, tolerance) THEN "check" ELSE "cross",
     recorded |-> F64Leq(tolerance, diff)]

table1_compared(method, metric, table_val, calc_val) ==
    compared("Table 1", method, metric, table_val, calc_val,
             F64Abs(F64Sub(table_val, calc_val)), table1_tolerance(metric))

table2_compared(method, i, table_val, calc_val) ==
    compared("Table 2", method, "noise_" \o noise_labels[i], table_val, calc_val,
             F64Abs(F64Sub(table_val, calc_val)), table2_tolerance)

\* table_values.get(method, {}).get(metric, np.nan)
table1_get(table_values, method, metric) ==
    IF method \in DOMAIN table_values THEN table_values[method][metric]
    ELSE F64NaN

\* table_vals[i] if i < len(table_vals) else np.nan
table2_get(table_values, method, i) ==
    IF method \in DOMAIN table_values /\ i <= Len(table_values[method])
    THEN table_values[method][i] ELSE F64NaN

discrepancy(c) ==
    [table |-> c.table, method |-> c.method, metric |-> c.metric,
     table_val |-> c.table_val, calc_val |-> c.calc_val, diff |-> c.diff]

\* what the passes of the loops leave: all_match, discrepancies, and the
\* marks printed
audited(passes) ==
    [all_match |-> \A k \in 1..Len(passes) : ~passes[k].recorded,
     discrepancies |->
         LET recorded == SelectSeq(passes, LAMBDA c : c.recorded)
         IN  [k \in 1..Len(recorded) |-> discrepancy(recorded[k])],
     printed |-> [k \in 1..Len(passes) |-> passes[k].match_symbol]]

audit_table1_of(table_values, calc) ==
    IF table_values.exc # "" THEN table_values
    ELSE IF FirstExc(calc) # "" THEN Raised(FirstExc(calc))
    ELSE Returned(audited(
             [k \in 1..25 |->
                 table1_compared(
                     method_at(k),
                     table1_metrics[slot_at(k)],
                     table1_get(table_values.out,
                                method_at(k),
                                table1_metrics[slot_at(k)]),
                     calc[outer_at(k)].out[table1_metrics[slot_at(k)]])]))

audit_table1(df, table_file) ==
    audit_table1_of(extract_table1_values(table_file),
                    [m \in 1..5 |-> audit_calculate_metrics(df, audit_methods[m])])

audit_table2_of(table_values, calc) ==
    IF table_values.exc # "" THEN table_values
    ELSE IF FirstExc(calc) # "" THEN Raised(FirstExc(calc))
    ELSE Returned(audited(
             [k \in 1..25 |->
                 table2_compared(
                     method_at(k), slot_at(k),
                     table2_get(table_values.out,
                                method_at(k), slot_at(k)),
                     calc[k].out)]))

audit_table2(df, table_file) ==
    audit_table2_of(extract_table2_values(table_file),
                    [k \in 1..25 |->
                        calculate_median_error_only(
                            SelectNoise(df, noise_levels[slot_at(k)]),
                            method_at(k))])

(***************************************************************************)
(* State: the table a script holds, the published tables on disk, and the  *)
(* call made.                                                              *)
(***************************************************************************)
VARIABLES df, paper_tables, ret, build, loader

vars == <<df, paper_tables, ret, build, loader>>

\* build_paper.main has not been called
NotBuilding == [pc |-> ""]

\* no DataLoader has been constructed
NoLoader == [obj |-> <<>>]

NoCall == [fn |-> "", run_name |-> "None", row |-> 0, noise |-> <<>>,
           exc |-> "", out |-> <<>>]

Call(fn, run_name, row, noise, result) ==
    [fn |-> fn, run_name |-> run_name, row |-> row, noise |-> noise,
     exc |-> result.exc, out |-> result.out]

RunNames == Methods \cup {"None"}

\* no published table is on disk
NoTables == [table_1 |-> MissingFile, table_2 |-> MissingFile]

\* published tables: a table of every method; a table with the line of one
\* method only; a table with the lines of two methods; a table with a cell
\* that is not a number; a table with a line cut short; no file
TableFiles ==
    {TexFile(<<TexLine("odepe", <<Num(1, 1), Num(500, 1), Num(1000, 1), Num(75, 1), Num(2, 0)>>),
               TexLine("odepe_polish", <<Num(0, 0), Num(0, 0), Num(0, 0), Num(0, 0), Num(0, 0)>>),
               TexLine("sciml", <<Num(1000, 1), Num(1000, 1), Num(1001, 1), Num(0, 0), Num(8, 0)>>),
               TexLine("amigo2_0_10", <<Num(0, 0), Num(0, 0), Num(0, 0), Num(0, 0), Num(0, 0)>>),
               TexLine("amigo2_0_100", <<Num(0, 0), Num(0, 0), Num(0, 0), Num(0, 0), Num(0, 0)>>)>>),
     TexFile(<<TexLine("odepe", <<Num(0, 0), Num(0, 0), Num(1000, 1), Num(200, 1), Num(45, 1)>>)>>),
     TexFile(<<TexLine("odepe", <<Num(0, 0), NotNum, Num(1000, 1), Num(200, 1), Num(45, 1)>>)>>),
     TexFile(<<TexLine("odepe", <<Num(75, 1), Num(0, 0), Num(2005, 2), Num(0, 0), Num(0, 0)>>),
               TexLine("sciml", <<Num(1, 1), Num(0, 0), Num(0, 0), Num(0, 0), Num(0, 0)>>)>>),
     TexFile(<<TexLine("sciml", <<Num(0, 0), Num(0, 0), Num(1000, 1)>>)>>),
     MissingFile}

\* the tables the audit reads next to the published ones
AuditFrames ==
    SeqsUpTo(CoreRows, MaxRows - 1)
    \cup {<<Row("odepe", "seir", <<0, 0>>, TRUE, BadCell, DictCell(<<>>),
                DictCell(<<>>), <<10, 0>>)>>}

Init ==
    /\ df \in DataFrames
    /\ paper_tables = NoTables
    /\ ret = NoCall
    /\ build = NotBuilding
    /\ loader = NoLoader

InitBulk ==
    /\ df \in BulkFrames
    /\ paper_tables = NoTables
    /\ ret = NoCall
    /\ build = NotBuilding
    /\ loader = NoLoader

InitAudit ==
    /\ df \in AuditFrames
    /\ paper_tables \in {[table_1 |-> f, table_2 |-> f] : f \in TableFiles}
    /\ ret = NoCall
    /\ build = NotBuilding
    /\ loader = NoLoader

\* a caller slices the table by noise level before it calls a metric
FilterNoise(noise) ==
    /\ ret = NoCall
    /\ df' = SelectNoise(df, noise)
    /\ UNCHANGED <<paper_tables, ret, build, loader>>

IndividualParamErrors(i) ==
    /\ ret = NoCall
    /\ parse_result(df[i].result).exc = ""
    /\ parse_dict(df[i].true_parameters).exc = ""
    /\ parse_dict(df[i].true_states).exc = ""
    /\ ret' = Call("calculate_individual_param_errors", "None", i, <<>>,
                   Returned(calculate_individual_param_errors(
                       parse_result(df[i].result).out,
                       parse_dict(df[i].true_parameters).out,
                       parse_dict(df[i].true_states).out)))
    /\ UNCHANGED <<df, paper_tables, build, loader>>

PooledErrors(run_name) ==
    /\ ret = NoCall
    /\ ret' = Call("calculate_pooled_errors", run_name, 0, <<>>,
                   calculate_pooled_errors(df, run_name))
    /\ UNCHANGED <<df, paper_tables, build, loader>>

MedianError(run_name) ==
    /\ ret = NoCall
    /\ ret' = Call("calculate_median_error", run_name, 0, <<>>,
                   calculate_median_error(df, run_name))
    /\ UNCHANGED <<df, paper_tables, build, loader>>

SuccessRates(run_name) ==
    /\ ret = NoCall
    /\ ret' = Call("calculate_success_rates", run_name, 0, <<>>,
                   calculate_success_rates(df, run_name))
    /\ UNCHANGED <<df, paper_tables, build, loader>>

RunLevelMetrics(run_name) ==
    /\ ret = NoCall
    /\ ret' = Call("calculate_run_level_metrics", run_name, 0, <<>>,
                   calculate_run_level_metrics(df, run_name))
    /\ UNCHANGED <<df, paper_tables, build, loader>>

AuditCalculateMetrics(run_name) ==
    /\ ret = NoCall
    /\ ret' = Call("audit.calculate_metrics", run_name, 0, <<>>,
                   audit_calculate_metrics(df, run_name))
    /\ UNCHANGED <<df, paper_tables, build, loader>>

AuditMedianErrorOnly(run_name) ==
    /\ ret = NoCall
    /\ ret' = Call("audit.calculate_median_error_only", run_name, 0, <<>>,
                   calculate_median_error_only(df, run_name))
    /\ UNCHANGED <<df, paper_tables, build, loader>>

\* the loop runs over the noise levels that occur in the table
Figure2MedianMax(method, noise) ==
    /\ ret = NoCall
    /\ noise \in {df[i].noise : i \in 1..Len(df)}
    /\ ret' = Call("figure_2_noise_degradation", method, 0, noise,
                   figure_2_median_max(df, method, noise))
    /\ UNCHANGED <<df, paper_tables, build, loader>>

Next ==
    \/ \E noise \in NoiseLevels : FilterNoise(noise)
    \/ \E i \in 1..Len(df) : IndividualParamErrors(i)
    \/ \E run_name \in RunNames : PooledErrors(run_name)
    \/ \E run_name \in RunNames : MedianError(run_name)
    \/ \E run_name \in RunNames : SuccessRates(run_name)
    \/ \E run_name \in Methods : RunLevelMetrics(run_name)
    \/ \E run_name \in Methods : AuditCalculateMetrics(run_name)
    \/ \E run_name \in Methods : AuditMedianErrorOnly(run_name)
    \/ \E method \in Methods, noise \in NoiseLevels : Figure2MedianMax(method, noise)

Spec == Init /\ [][Next]_vars

SpecBulk == InitBulk /\ [][Next]_vars

(***************************************************************************)
(* The calls of the consumers of the pooled and the run-level metrics: the *)
(* table generators, the comparison script and the auditor                 *)
(***************************************************************************)
AllMetrics(run_name) ==
    /\ ret = NoCall
    /\ ret' = Call("calculate_all_metrics", run_name, 0, <<>>,
                   calculate_all_metrics(df, run_name))
    /\ UNCHANGED <<df, paper_tables, build, loader>>

PerformanceByNoise(run_name) ==
    /\ ret = NoCall
    /\ ret' = Call("calculate_performance_by_noise", run_name, 0, <<>>,
                   calculate_performance_by_noise(df, run_name))
    /\ UNCHANGED <<df, paper_tables, build, loader>>

PerformanceBySystem(run_name, noise_level) ==
    /\ ret = NoCall
    /\ ret' = Call("calculate_performance_by_system", run_name, 0, noise_level,
                   calculate_performance_by_system(df, run_name, noise_level))
    /\ UNCHANGED <<df, paper_tables, build, loader>>

MethodB(run_name) ==
    /\ ret = NoCall
    /\ ret' = Call("compare.method_b_per_parameter_pooling", run_name, 0, <<>>,
                   method_b_per_parameter_pooling(df, run_name))
    /\ UNCHANGED <<df, paper_tables, build, loader>>

GenerateTable1(run_name) ==
    /\ ret = NoCall
    /\ ret' = Call("generate_table_1", run_name, 0, <<>>,
                   table_1_success(df, run_name))
    /\ UNCHANGED <<df, paper_tables, build, loader>>

\* the views of the pooled errors of a method
NextViews ==
    \/ \E run_name \in RunNames : PooledErrors(run_name)
    \/ \E run_name \in Methods : PerformanceByNoise(run_name)
    \/ \E run_name \in Methods, noise_level \in NoiseLevels :
           PerformanceBySystem(run_name, noise_level)

SpecViews == Init /\ [][NextViews]_vars

\* the metrics of a method as each consumer computes them
NextConsumers ==
    \/ \E run_name \in Methods : AllMetrics(run_name)
    \/ \E run_name \in Methods : AuditCalculateMetrics(run_name)
    \/ \E run_name \in Methods : MethodB(run_name)

SpecConsumers == Init /\ [][NextConsumers]_vars

\* the run-level table
NextTables == \E run_name \in Methods : GenerateTable1(run_name)

SpecTables == Init /\ [][NextTables]_vars

FiguresRunLevelMetrics(run_name) ==
    /\ ret = NoCall
    /\ ret' = Call("figures.calculate_run_level_metrics", run_name, 0, <<>>,
                   figures_calculate_run_level_metrics(df, run_name))
    /\ UNCHANGED <<df, paper_tables, build, loader>>

RunLevelBySystem(run_name, noise_level, system) ==
    /\ ret = NoCall
    /\ ret' = Call("calculate_run_level_metrics_by_system", run_name, 0,
                   [noise_level |-> noise_level, system |-> system],
                   calculate_run_level_metrics_by_system(df, run_name,
                                                         noise_level, system))
    /\ UNCHANGED <<df, paper_tables, build, loader>>

MethodA(run_name) ==
    /\ ret = NoCall
    /\ ret' = Call("compare.method_a_per_run_median", run_name, 0, <<>>,
                   method_a_per_run_median(df, run_name))
    /\ UNCHANGED <<df, paper_tables, build, loader>>

\* the run-level computation and its copies
NextRuns ==
    \/ \E run_name \in Methods : RunLevelMetrics(run_name)
    \/ \E run_name \in Methods : FiguresRunLevelMetrics(run_name)
    \/ \E run_name \in Methods, noise_level \in NoiseLevels, system \in Systems :
           RunLevelBySystem(run_name, noise_level, system)
    \/ \E run_name \in Methods : MethodA(run_name)

SpecRuns == Init /\ [][NextRuns]_vars

(***************************************************************************)
(* dataset_package/filter_nonidentifiable.py                               *)
(***************************************************************************)
NON_IDENTIFIABLE == [biohydrogenation |-> <<"x7">>]

\* NON_IDENTIFIABLE.get(system_name, [])
non_identifiable_of(system_name) ==
    IF system_name \in DOMAIN NON_IDENTIFIABLE THEN NON_IDENTIFIABLE[system_name]
    ELSE <<>>

identifiable_items_keep_all(items, non_id) == items

\* the entries whose name is not in non_id
identifiable_items(items, non_id) ==
    SelectSeq(items, LAMBDA item : ~(\E k \in 1..Len(non_id) : item[1] = non_id[k]))

\* an unparseable cell is returned as it is
parse_and_filter_result(result_str, system_name) ==
    IF result_str.kind = "nan" \/ (result_str.kind = "list" /\ result_str.items = <<>>)
    THEN result_str
    ELSE IF non_identifiable_of(system_name) = <<>> THEN result_str
    ELSE IF result_str.kind = "list"
    THEN ListCell(identifiable_items(result_str.items,
                                     non_identifiable_of(system_name)))
    ELSE result_str

parse_and_filter_dict(dict_str, system_name) ==
    IF dict_str.kind = "nan" \/ (dict_str.kind = "dict" /\ dict_str.items = <<>>)
    THEN dict_str
    ELSE IF non_identifiable_of(system_name) = <<>> THEN dict_str
    ELSE IF dict_str.kind = "dict"
    THEN DictCell(identifiable_items(dict_str.items,
                                     non_identifiable_of(system_name)))
    ELSE dict_str

\* the table written to output_file
filter_dataset(input_file) ==
    [i \in 1..Len(input_file) |->
        [input_file[i] EXCEPT
            !.result = parse_and_filter_result(input_file[i].result,
                                               input_file[i].name),
            !.true_states = parse_and_filter_dict(input_file[i].true_states,
                                                  input_file[i].name)]]

FilterResultCells ==
    {NaNCell, BadCell, ListCell(<<>>),
     ListCell(<< <<"a", <<10, 0>> >> >>),
     ListCell(<< <<"x7", <<10, 0>> >> >>),
     ListCell(<< <<"a", <<11, 0>> >>, <<"x7", <<10, 0>> >>, <<"b", <<5, 2>> >> >>)}

FilterStateCells == TrueStateCells \cup {NaNCell, BadCell}

FilterRows ==
    {Row("odepe", name, <<0, 0>>, TRUE, r, DictCell(<< <<"x7", <<10, 0>> >> >>),
         ts, <<1, 0>>) :
        name \in Systems, r \in FilterResultCells, ts \in FilterStateCells}

FilterFrames == SeqsUpTo(FilterRows, MaxRows - 1)

InitFilter ==
    /\ df \in FilterFrames
    /\ paper_tables = NoTables
    /\ ret = NoCall
    /\ build = NotBuilding
    /\ loader = NoLoader

FilterDataset ==
    /\ ret = NoCall
    /\ ret' = Call("filter_dataset", "None", 0, <<>>, Returned(filter_dataset(df)))
    /\ UNCHANGED <<df, paper_tables, build, loader>>

NextFilter == FilterDataset

SpecFilter == InitFilter /\ [][NextFilter]_vars

(***************************************************************************)
(* build_paper.py: main and the five steps.  `build' holds the position of *)
(* main, the files it tests for, and the log of what it started, ran and   *)
(* returned.  A subprocess ends with status 0, with another status, or is  *)
(* not launched at all (subprocess.run raises OSError).                    *)
(***************************************************************************)
VENV_PYTHON == "visualization/.venv/bin/python3"

FILTER_SCRIPT == "dataset_package/filter_nonidentifiable.py"

TABLES_1_2_SCRIPT == "generate_corrected_tables_1_2.py"

TABLES_3_4_SCRIPT == "generate_system_performance_tables.py"

fig_scripts == <<"generate_figure1_gpr_demo.py", "generate_all_final_figures.py">>

tables ==
    <<"table_1_overall_performance_corrected.tex",
      "table_2_performance_by_noise_corrected.tex",
      "system_performance_low_noise.tex",
      "system_performance_high_noise.tex">>

figures_dir == "outputs/figures/corrected"

\* a file that figures_dir.glob("*.pdf") finds
FIGURE_PDF == "outputs/figures/corrected/figure.pdf"

pdf_file == "paper/paper.pdf"

commands ==
    <<[cmd |-> "pdflatex", desc |-> "First pdflatex pass"],
      [cmd |-> "bibtex", desc |-> "BibTeX bibliography"],
      [cmd |-> "pdflatex", desc |-> "Second pdflatex pass"],
      [cmd |-> "pdflatex", desc |-> "Third pdflatex pass (final)"]>>

Outcomes == {"0", "1", "OSError"}

Event(ev, what, res) == [ev |-> ev, what |-> what, res |-> res]

Logged(b, events) == [b EXCEPT !.log = @ \o events]

\* True exactly for return code 0
run_command(outcome) == outcome = "0"

PyBool(v) == IF v THEN "True" ELSE "False"

\* an exception leaves main
Propagated(b, exc) == [b EXCEPT !.pc = "done", !.exit = exc]

\* lines 198-207: the final summary and the return value
Summary(b) ==
    [b EXCEPT !.pc = "done",
              !.report = IF b.success THEN "BUILD COMPLETE" ELSE "BUILD FAILED",
              !.exit = IF b.success THEN "0" ELSE "1"]

after_step2_continue(step2_ok, b) == [b EXCEPT !.pc = "step3", !.k = 1]

\* lines 183-186: a failed step 2 sets success to False and skips the rest
after_step2(step2_ok, b) ==
    IF step2_ok THEN [b EXCEPT !.pc = "step3", !.k = 1]
    ELSE Summary([b EXCEPT !.success = FALSE])

step5_returns_all_passed(passes_ok, pdf_exists) == passes_ok /\ pdf_exists

\* lines 156-163: the result of step 5 is the existence of paper.pdf
step5_returns(passes_ok, pdf_exists) == pdf_exists

TableSourceSets ==
    {{}, {tables[1]}, {tables[3], tables[4]}, {tables[i] : i \in 1..4}}

FigureSets == {{}, {figures_dir}, {figures_dir, FIGURE_PDF}}

BuildFileSets ==
    {s \cup t \cup f \cup o :
        s \in SUBSET {VENV_PYTHON, FILTER_SCRIPT, fig_scripts[1], fig_scripts[2]},
        t \in TableSourceSets, f \in FigureSets, o \in SUBSET {pdf_file}}

InitBuild ==
    /\ df = <<>>
    /\ paper_tables = NoTables
    /\ ret = NoCall
    /\ loader = NoLoader
    /\ build \in {[pc |-> "main", files |-> fs, log |-> <<>>, k |-> 0,
                   success |-> TRUE, exit |-> "", report |-> ""] :
                     fs \in BuildFileSets}

\* lines 165-178
BuildMain ==
    /\ build.pc = "main"
    /\ build' = IF VENV_PYTHON \notin build.files
                THEN Propagated(build, "SystemExit(1)")
                ELSE [build EXCEPT !.pc = "step1"]
    /\ UNCHANGED <<df, paper_tables, ret, loader>>

\* step1_filter_data and lines 180-181
Step1FilterData ==
    /\ build.pc = "step1"
    /\ LET b == Logged(build, <<Event("start", "step1", "")>>)
       IN  IF FILTER_SCRIPT \notin build.files
           THEN build' = Logged([b EXCEPT !.pc = "step2"],
                                <<Event("return", "step1", "True")>>)
           ELSE \E o \in Outcomes :
                   build' =
                       IF o = "OSError"
                       THEN Propagated(Logged(b, <<Event("run", FILTER_SCRIPT, o)>>), o)
                       ELSE Logged([b EXCEPT !.pc = "step2"],
                                   <<Event("run", FILTER_SCRIPT, o),
                                     Event("return", "step1", PyBool(run_command(o)))>>)
    /\ UNCHANGED <<df, paper_tables, ret, loader>>

\* step2_generate_tables up to the end of the Tables 1-2 generator
Step2Tables12 ==
    /\ build.pc = "step2"
    /\ \E o \in Outcomes :
          LET b == Logged(build, <<Event("start", "step2", ""),
                                   Event("run", TABLES_1_2_SCRIPT, o)>>)
          IN  build' =
                  IF o = "OSError" THEN Propagated(b, o)
                  ELSE IF run_command(o) THEN [b EXCEPT !.pc = "step2_cmd2"]
                  ELSE after_step2(FALSE,
                                   Logged(b, <<Event("return", "step2", "False")>>))
    /\ UNCHANGED <<df, paper_tables, ret, loader>>

\* step2_generate_tables from the Tables 3-4 generator, and lines 183-186
Step2Tables34 ==
    /\ build.pc = "step2_cmd2"
    /\ \E o \in Outcomes :
          LET b == Logged(build, <<Event("run", TABLES_3_4_SCRIPT, o)>>)
          IN  build' =
                  IF o = "OSError" THEN Propagated(b, o)
                  ELSE after_step2(run_command(o),
                                   Logged(b, <<Event("return", "step2",
                                                     PyBool(run_command(o)))>>))
    /\ UNCHANGED <<df, paper_tables, ret, loader>>

\* one turn of the loop of step3_generate_figures; the last turn returns True
Step3Script ==
    /\ build.pc = "step3"
    /\ LET k == build.k
           started == IF k = 1 THEN Logged(build, <<Event("start", "step3", "")>>)
                      ELSE build
           Turned(b) ==
               IF k < Len(fig_scripts) THEN [b EXCEPT !.k = k + 1]
               ELSE Logged([b EXCEPT !.pc = "step4", !.k = 0],
                           <<Event("return", "step3", "True")>>)
       IN  IF fig_scripts[k] \notin build.files
           THEN build' = Turned(Logged(started, <<Event("skip", fig_scripts[k], "")>>))
           ELSE \E o \in Outcomes :
                   LET b == Logged(started, <<Event("run", fig_scripts[k], o)>>)
                   IN  build' = IF o = "OSError" THEN Propagated(b, o) ELSE Turned(b)
    /\ UNCHANGED <<df, paper_tables, ret, loader>>

\* the copies of step4_copy_outputs up to table n: a source that exists is
\* copied, a missing one is skipped
TableCopies(files, n) ==
    [i \in 1..n |-> IF tables[i] \in files THEN Event("copy", tables[i], "")
                    ELSE Event("skip", tables[i], "")]

\* copy loop of the tables; shutil.copy2 of table n raises when n > 0
Step4CopyTables ==
    /\ build.pc = "step4"
    /\ \E n \in 0..Len(tables) :
          /\ n > 0 => tables[n] \in build.files
          /\ LET b == Logged(build, <<Event("start", "step4", "")>>)
             IN  build' =
                     IF n > 0
                     THEN Propagated(
                              Logged(b, TableCopies(build.files, n - 1)
                                        \o <<Event("copy", tables[n], "OSError")>>),
                              "OSError")
                     ELSE Logged([b EXCEPT !.pc = "step4_figures"],
                                 TableCopies(build.files, Len(tables)))
    /\ UNCHANGED <<df, paper_tables, ret, loader>>

\* copy loop of the figures, and the return of step 4
Step4CopyFigures ==
    /\ build.pc = "step4_figures"
    /\ LET returned(b) == Logged([b EXCEPT !.pc = "step5", !.k = 1],
                                 <<Event("return", "step4", "True")>>)
       IN  IF figures_dir \notin build.files
           THEN build' = returned(Logged(build, <<Event("skip", figures_dir, "")>>))
           ELSE IF FIGURE_PDF \notin build.files
           THEN build' = returned(build)
           ELSE \E raised \in BOOLEAN :
                   build' =
                       IF raised
                       THEN Propagated(Logged(build,
                                <<Event("copy", FIGURE_PDF, "OSError")>>), "OSError")
                       ELSE returned(Logged(build, <<Event("copy", FIGURE_PDF, "")>>))
    /\ UNCHANGED <<df, paper_tables, ret, loader>>

\* whether every command of step 5 logged so far ended with status 0
PassesOk(b) ==
    \A i \in 1..Len(b.log) :
        (b.log[i].ev = "run" /\ b.log[i].what \in {"pdflatex", "bibtex"})
            => b.log[i].res = "0"

\* one turn of the loop of step5_compile_latex; after the last turn the
\* check of paper.pdf, lines 194-196 and the summary
Step5Command ==
    /\ build.pc = "step5"
    /\ \E o \in Outcomes, written \in SUBSET {pdf_file} :
          /\ (o = "OSError" \/ commands[build.k].cmd # "pdflatex")
                 => written = build.files \cap {pdf_file}
          /\ LET k == build.k
                 started == IF k = 1
                            THEN Logged(build, <<Event("start", "step5", "")>>)
                            ELSE build
                 b == Logged([started EXCEPT
                                 !.files = (@ \ {pdf_file}) \cup written],
                             <<Event("run", commands[k].cmd, o)>>)
                 ok == step5_returns(PassesOk(b), pdf_file \in b.files)
             IN  build' =
                     IF o = "OSError" THEN Propagated(b, o)
                     ELSE IF k < Len(commands) THEN [b EXCEPT !.k = k + 1]
                     ELSE Summary(Logged([b EXCEPT !.success = ok, !.k = 0],
                                         <<Event("return", "step5", PyBool(ok))>>))
    /\ UNCHANGED <<df, paper_tables, ret, loader>>

NextBuild ==
    \/ BuildMain
    \/ Step1FilterData
    \/ Step2Tables12
    \/ Step2Tables34
    \/ Step3Script
    \/ Step4CopyTables
    \/ Step4CopyFigures
    \/ Step5Command

SpecBuild == InitBuild /\ [][NextBuild]_vars

(***************************************************************************)
(* scripts/data_loading.py: class DataLoader.  `loader' holds the CSV      *)
(* files by path, the parquet file at PROCESSED_DATA_PATH, and the fields  *)
(* of each DataLoader object.  A frame is known by the dataset it was read *)
(* from and by whether it carries the computed metric columns.             *)
(***************************************************************************)
PyNone == [of |-> "None", cols |-> "none"]

\* PROCESSED_DATA_PATH does not exist
NoParquet == [of |-> "", cols |-> "missing"]

\* pd.read_csv of a file with these contents
read_csv(contents) == [of |-> contents, cols |-> "raw"]

\* the frame process_data builds from a raw frame
with_metrics(raw_df) == [of |-> raw_df.of, cols |-> "metrics"]

summary_of(processed_df) == [of |-> processed_df.of, cols |-> "summary"]

\* the result of a method: the files and objects after it, its return value
\* and what it did
Did(st, out, did) == [st |-> st, out |-> out, did |-> did]

load_raw_data(st, self) ==
    LET raw_df == read_csv(st.csv[st.obj[self].csv_path])
    IN  Did([st EXCEPT !.obj[self].raw_df = raw_df], raw_df, {"read_csv"})

\* lines 299-302: the cache file is written when use_cache is true
to_parquet(st, self, frame) ==
    IF st.obj[self].use_cache THEN Did([st EXCEPT !.parquet = frame], frame, {"to_parquet"})
    ELSE Did(st, frame, {})

process_data(st, self) ==
    LET loaded == IF st.obj[self].raw_df = PyNone THEN load_raw_data(st, self)
                  ELSE Did(st, PyNone, {})
        frame == with_metrics(loaded.st.obj[self].raw_df)
        saved == to_parquet([loaded.st EXCEPT !.obj[self].processed_df = frame], self, frame)
    IN  Did(saved.st, frame, loaded.did \cup {"process_data"} \cup saved.did)

get_data(st, self) ==
    IF st.obj[self].use_cache /\ st.parquet # NoParquet
    THEN Did([st EXCEPT !.obj[self].processed_df = st.parquet], st.parquet,
             {"read_parquet"})
    ELSE LET done == process_data(st, self)
         IN  Did(done.st, done.st.obj[self].processed_df, done.did)

get_summary_statistics(st, self) ==
    LET got == IF st.obj[self].processed_df = PyNone THEN get_data(st, self)
               ELSE Did(st, PyNone, {})
    IN  Did(got.st, summary_of(got.st.obj[self].processed_df), got.did)

CsvPaths == {"combined_results_filtered.csv", "other_results.csv"}

\* the contents of the two CSV files
CsvFiles ==
    [p \in CsvPaths |-> IF p = "combined_results_filtered.csv" THEN "filtered"
                        ELSE "other"]

Loaders == {1, 2}

\* DataLoader(csv_path, use_cache)
NewLoader(csv_path, use_cache) ==
    [csv_path |-> csv_path, use_cache |-> use_cache, raw_df |-> PyNone,
     processed_df |-> PyNone]

\* the parquet file is missing, or was left by a run over an earlier dataset
InitLoader ==
    /\ df = <<>>
    /\ paper_tables = NoTables
    /\ ret = NoCall
    /\ build = NotBuilding
    /\ loader \in {[csv |-> CsvFiles, parquet |-> pq, obj |-> o] :
                      pq \in {NoParquet, with_metrics(read_csv("earlier"))},
                      o \in [Loaders -> {NewLoader(p, c) : p \in CsvPaths,
                                                           c \in BOOLEAN}]}

\* a call of a method: ret holds the return value, what the call did and the
\* files and objects before it
MethodCall(fn, self, done) ==
    Call(fn, "None", self, <<>>,
         Returned([value |-> done.out, did |-> done.did, before |-> loader]))

LoadRawData(self) ==
    /\ loader' = load_raw_data(loader, self).st
    /\ ret' = MethodCall("DataLoader.load_raw_data", self, load_raw_data(loader, self))
    /\ UNCHANGED <<df, paper_tables, build>>

ProcessData(self) ==
    /\ loader' = process_data(loader, self).st
    /\ ret' = MethodCall("DataLoader.process_data", self, process_data(loader, self))
    /\ UNCHANGED <<df, paper_tables, build>>

GetData(self) ==
    /\ loader' = get_data(loader, self).st
    /\ ret' = MethodCall("DataLoader.get_data", self, get_data(loader, self))
    /\ UNCHANGED <<df, paper_tables, build>>

GetSummaryStatistics(self) ==
    /\ loader' = get_summary_statistics(loader, self).st
    /\ ret' = MethodCall("DataLoader.get_summary_statistics", self,
                         get_summary_statistics(loader, self))
    /\ UNCHANGED <<df, paper_tables, build>>

NextLoader ==
    \/ \E self \in Loaders : LoadRawData(self)
    \/ \E self \in Loaders : ProcessData(self)
    \/ \E self \in Loaders : GetData(self)
    \/ \E self \in Loaders : GetSummaryStatistics(self)

SpecLoader == InitLoader /\ [][NextLoader]_vars

(***************************************************************************)
(* The tables as the generators write them.  A printed cell is known by    *)
(* the digits of f"{v:.pf}" and by the double that float() reads from      *)
(* them; the last part of a line after split('&') ends with the row end    *)
(* "\\".                                                                   *)
(***************************************************************************)
\* the integer nearest to |v| * 10^places
Digits(v, places) ==
    IF v.e >= 0 THEN BShl(BMul(v.m, BPow10(places)), v.e)
    ELSE BDivPow2(BMul(v.m, BPow10(places)), 0 - v.e)

PrintedDigits(v, places, digits) ==
    [numeric |-> TRUE, lit |-> <<>>, places |-> places, digits |-> digits,
     value |-> F64Round(v.s, digits, BPow10(places), 0)]

\* f"{v:.pf}" with p = places
Printed(v, places) ==
    IF v.nan THEN [numeric |-> TRUE, lit |-> <<>>, places |-> places,
                   digits |-> <<>>, value |-> F64NaN]
    ELSE PrintedDigits(v, places, Digits(v, places))

\* text that float() does not read
Text(text) == [numeric |-> FALSE, lit |-> <<>>, text |-> text]

\* the part 'cell \\'; float() of it raises
RowEnd(cell) == [numeric |-> FALSE, lit |-> <<>>, before |-> cell]

\* part.replace('\\\\', '')
without_row_end(part) == IF "before" \in DOMAIN part THEN part.before ELSE part

\* line.split('&')[1:] of the line ' & '.join(cells) + ' \\\\'
split_parts(cells) ==
    [i \in 1..Len(cells) |-> IF i = Len(cells) THEN RowEnd(cells[i]) ELSE cells[i]]

\* _lerp(a, b, t) of numpy's quantile
lerp_with(lo, hi, gamma, diff_b_a) ==
    IF F64Leq(F64FromDec(5, 1), gamma)
    THEN F64Sub(hi, F64Mul(diff_b_a, F64Sub(F64FromInt(1), gamma)))
    ELSE F64Add(lo, F64Mul(diff_b_a, gamma))

lerp(lo, hi, gamma) == lerp_with(lo, hi, gamma, F64Sub(hi, lo))

percentile_between(a, virtual_index, previous_index) ==
    lerp(OrderStat(a, previous_index + 1),
         OrderStat(a, IF previous_index + 2 > Len(a) THEN Len(a) ELSE previous_index + 2),
         F64Sub(virtual_index, F64FromInt(previous_index)))

percentile_at(a, virtual_index) ==
    percentile_between(a, virtual_index,
        CHOOSE k \in 0..(Len(a) - 1) :
            /\ F64Leq(F64FromInt(k), virtual_index)
            /\ F64Less(virtual_index, F64FromInt(k + 1)))

\* np.percentile(a, 90), linear interpolation between the closest ranks
np_percentile_90(a) ==
    IF \E i \in 1..Len(a) : a[i].nan THEN F64NaN
    ELSE percentile_at(a, F64Mul(F64FromInt(Len(a) - 1),
                                 F64Div(F64FromInt(90), F64FromInt(100))))

\* the methods dict of generate_table_1, cut to the methods of the frames
table_methods == <<"odepe", "sciml">>

table_1_places == <<1, 1, 1, 2, 1>>

table_1_values(max_error) ==
    <<Percent(CountBelow(max_error, table_1_thresholds.success_1pct), Len(max_error)),
      Percent(CountBelow(max_error, table_1_thresholds.success_10pct), Len(max_error)),
      Percent(CountBelow(max_error, table_1_thresholds.success_50pct), Len(max_error)),
      Times100(np_median(max_error)),
      F64Mul(np_percentile_90(max_error), F64FromInt(100))>>

\* lines 40-62: the cells of one row
table_1_cells(values) ==
    [i \in 1..Len(values) |-> Printed(values[i], table_1_places[i])]

table_1_line(run_df, run_name) ==
    IF run_df.exc # "" THEN run_df
    ELSE IF Len(run_df.out) = 0 THEN Raised("KeyError")
    ELSE Returned(TexLine(run_name,
             split_parts(table_1_cells(table_1_values(MaxErrors(run_df.out))))))

\* the file table_1_overall_performance_corrected.tex
table_file(lines) ==
    IF FirstExc(lines) # "" THEN Raised(FirstExc(lines))
    ELSE Returned(TexFile([i \in 1..Len(lines) |-> lines[i].out]))

generate_table_1(frame) ==
    table_file([i \in 1..Len(table_methods) |->
                   table_1_line(calculate_run_level_metrics(frame, table_methods[i]),
                                table_methods[i])])

system_methods == <<"odepe_polish", "sciml", "amigo2_0_10">>

\* sorted(df['name'].unique())
sorted_names(frame) ==
    SelectSeq(<<"biohydrogenation", "seir">>, LAMBDA name : name \in NamesOf(frame))

\* lines 72-84: the text of one cell
system_text(median_pct) ==
    IF median_pct.nan THEN Text("N/A")
    ELSE IF F64Less(F64FromInt(1000), median_pct) THEN Text("$>1000$")
    ELSE Printed(median_pct, IF F64Less(F64FromInt(10), median_pct) THEN 1
                             ELSE IF F64Less(F64FromDec(1, 1), median_pct) THEN 2
                             ELSE 3)

system_cell(median_max_error) ==
    IF median_max_error.exc # "" THEN median_max_error
    ELSE Returned(system_text(F64Mul(median_max_error.out, F64FromInt(100))))

system_cells(cells, system) ==
    IF FirstExc(cells) # "" THEN Raised(FirstExc(cells))
    ELSE Returned(TexLine(system, split_parts([i \in 1..Len(cells) |-> cells[i].out])))

system_line(frame, noise_level, system) ==
    system_cells([i \in 1..Len(system_methods) |->
                     system_cell(calculate_run_level_metrics_by_system(
                         frame, system_methods[i], noise_level, system))],
                 system)

system_lines(frame, noise_level, names) ==
    table_file([i \in 1..Len(names) |-> system_line(frame, noise_level, names[i])])

\* generate_low_noise_table, generate_high_noise_table and save_latex_table
generate_system_table(frame, noise_level) ==
    system_lines(frame, noise_level, sorted_names(frame))

RECURSIVE extract_table3_lines(_, _, _)

table3_floats(floats) ==
    IF FirstExc(floats) # "" THEN Raised(FirstExc(floats))
    ELSE Returned([odepe_polish |-> floats[1].out, sciml |-> floats[2].out,
                   amigo2_0_10 |-> floats[3].out])

table3_record(parts) ==
    table3_floats(<<python_float(parts, 1), python_float(parts, 2),
                    python_float(<<parts[1], parts[2], without_row_end(parts[3])>>, 3)>>)

table3_put(lines, i, values, record) ==
    IF record.exc # "" THEN record
    ELSE extract_table3_lines(lines, i + 1, Put(values, lines[i].method, record.out))

\* a line of fewer than four parts is passed over
extract_table3_lines(lines, i, values) ==
    IF i > Len(lines) THEN Returned(values)
    ELSE IF Len(lines[i].cells) + 1 < 4
    THEN extract_table3_lines(lines, i + 1, values)
    ELSE table3_put(lines, i, values, table3_record(lines[i].cells))

extract_table3_values(file) ==
    IF ~file.exists THEN Raised("FileNotFoundError")
    ELSE extract_table3_lines(file.lines, 1, <<>>)

\* runs of the three methods of the system tables at noise 1e-6 and 1e-2
SystemRows ==
    {Row("odepe_polish", "seir", <<1, 6>>, TRUE,
         ListCell(<< <<"a", <<11, 0>> >>, <<"b", <<5, 2>> >> >>),
         DictCell(<< <<"a", <<10, 0>> >>, <<"b", <<0, 0>> >> >>), DictCell(<<>>),
         <<1, 0>>),
     Row("odepe_polish", "seir", <<1, 6>>, TRUE, ListCell(<< <<"a", <<10, 0>> >> >>),
         DictCell(<< <<"a", <<10, 0>> >> >>), DictCell(<<>>), <<1, 0>>),
     Row("sciml", "seir", <<1, 6>>, TRUE, ListCell(<< <<"a", <<12, 0>> >> >>),
         DictCell(<< <<"a", <<10, 0>> >> >>), DictCell(<<>>), <<4, 0>>),
     Row("amigo2_0_10", "seir", <<1, 6>>, TRUE, ListCell(<< <<"a", <<1, 2>> >> >>),
         DictCell(<< <<"a", <<0, 0>> >> >>), DictCell(<<>>), <<2, 0>>),
     Row("amigo2_0_10", "seir", <<1, 6>>, FALSE, NaNCell,
         DictCell(<< <<"a", <<10, 0>> >> >>), DictCell(<<>>), <<10, 0>>),
     Row("sciml", "biohydrogenation", <<1, 2>>, TRUE,
         ListCell(<< <<"a", <<10, 0>> >> >>),
         DictCell(<< <<"a", <<10, 0>> >> >>), DictCell(<<>>), <<7, 0>>)}

RoundTripFrames == SeqsUpTo(CoreRows, MaxRows - 1) \cup SeqsUpTo(SystemRows, MaxRows)

NoWrittenTables ==
    [table_1 |-> MissingFile, table_2 |-> MissingFile, system_table |-> MissingFile]

InitRoundTrip ==
    /\ df \in RoundTripFrames
    /\ paper_tables = NoWrittenTables
    /\ ret = NoCall
    /\ build = NotBuilding
    /\ loader = NoLoader

\* generate_table_1 writes its file, which step 4 of the build copies to the
\* place where the audit reads it; nothing is written when it raises
WriteTable1 ==
    /\ ret = NoCall
    /\ ~paper_tables.table_1.exists
    /\ \E written \in {generate_table_1(df)} :
           IF written.exc = ""
           THEN /\ paper_tables' = [paper_tables EXCEPT !.table_1 = written.out]
                /\ UNCHANGED ret
           ELSE /\ ret' = Call("generate_table_1", "None", 0, <<>>, written)
                /\ UNCHANGED paper_tables
    /\ UNCHANGED <<df, build, loader>>

WriteSystemTable(noise_level) ==
    /\ ret = NoCall
    /\ ~paper_tables.system_table.exists
    /\ \E written \in {generate_system_table(df, noise_level)} :
           IF written.exc = ""
           THEN /\ paper_tables' = [paper_tables EXCEPT !.system_table = written.out]
                /\ UNCHANGED ret
           ELSE /\ ret' = Call("generate_system_table", "None", 0, noise_level, written)
                /\ UNCHANGED paper_tables
    /\ UNCHANGED <<df, build, loader>>

ReadTable1 ==
    /\ ret = NoCall
    /\ ret' = Call("extract_table1_values", "None", 0, <<>>,
                   extract_table1_values(paper_tables.table_1))
    /\ UNCHANGED <<df, paper_tables, build, loader>>

ReadSystemTable ==
    /\ ret = NoCall
    /\ ret' = Call("extract_table3_values", "None", 0, <<>>,
                   extract_table3_values(paper_tables.system_table))
    /\ UNCHANGED <<df, paper_tables, build, loader>>

NextRoundTrip ==
    \/ WriteTable1
    \/ \E noise_level \in {<<1, 6>>, <<1, 2>>} : WriteSystemTable(noise_level)
    \/ ReadTable1
    \/ ReadSystemTable

SpecRoundTrip == InitRoundTrip /\ [][NextRoundTrip]_vars

AuditTable1 ==
    /\ ret = NoCall
    /\ ret' = Call("audit_table1", "None", 0, <<>>,
                   audit_table1(df, paper_tables.table_1))
    /\ UNCHANGED <<df, paper_tables, build, loader>>

AuditTable2 ==
    /\ ret = NoCall
    /\ ret' = Call("audit_table2", "None", 0, <<>>,
                   audit_table2(df, paper_tables.table_2))
    /\ UNCHANGED <<df, paper_tables, build, loader>>

\* the audit of the published tables
NextAudit == AuditTable1 \/ AuditTable2

SpecAudit == InitAudit /\ [][NextAudit]_vars

(***************************************************************************)
(* Properties                                                              *)
(***************************************************************************)
\* the parsed cells of row i (used where they parse)
EstOf(row) == parse_result(row.result).out

ParamsOf(row) == parse_dict(row.true_parameters).out

StatesOf(row) == parse_dict(row.true_states).out

Parses(row) ==
    /\ parse_result(row.result).exc = ""
    /\ parse_dict(row.true_parameters).exc = ""
    /\ parse_dict(row.true_states).exc = ""

TrueKeys(row) == DictKeys(ParamsOf(row)) \cup DictKeys(StatesOf(row))

\* the merged true value of a key: the state's value where both name it
TrueOf(row, key) ==
    IF DictHas(StatesOf(row), key) THEN DictGet(StatesOf(row), key)
    ELSE DictGet(ParamsOf(row), key)

MatchedKeys(row) == TrueKeys(row) \cap DictKeys(EstOf(row))

\* the error the specification gives for a matched key
SpecError(row, key) ==
    LET est == DictGet(EstOf(row), key)
        tru == TrueOf(row, key)
        gap == IF F64Less(est, tru) THEN F64Sub(tru, est) ELSE F64Sub(est, tru)
        mag == IF tru.s = 1 THEN F64Neg(tru) ELSE tru
    IN  IF F64Leq(TINY, mag) THEN F64Div(gap, mag) ELSE gap

CalledOn(fn) == ret.fn = fn /\ ret.exc = ""

\* C1: the errors emitted by calculate_individual_param_errors are, key by
\* key, |est - true| / |true| where |true| >= 1e-10 and |est - true| where
\* |true| < 1e-10; no emitted error is the result of a division by zero.
C1_RelativeOrAbsoluteError ==
    CalledOn("calculate_individual_param_errors") =>
        LET row      == df[ret.row]
            expected == {SpecError(row, key) : key \in MatchedKeys(row)}
        IN  /\ \A v \in expected \cup Range(ret.out) :
                  Cardinality({i \in 1..Len(ret.out) : ret.out[i] = v})
                  = Cardinality({key \in MatchedKeys(row) : SpecError(row, key) = v})
            /\ \A i \in 1..Len(ret.out) : ~ret.out[i].nan

\* a zero and a non-zero true value are both matched: the example of the
\* specification, errors 0.1 (relative) and 0.05 (absolute)
C1_Witness ==
    /\ CalledOn("calculate_individual_param_errors")
    /\ ret.out = <<F64FromDec(1, 1), F64FromDec(5, 2)>>
    /\ F64IsZero(TrueOf(df[ret.row], "b"))

\* C2: calculate_individual_param_errors returns one error per key that is
\* both a true key and an estimated key, and no more than there are true keys.
C2_OneErrorPerMatchedKey ==
    CalledOn("calculate_individual_param_errors") =>
        /\ Len(ret.out) = Cardinality(MatchedKeys(df[ret.row]))
        /\ Len(ret.out) <= Cardinality(TrueKeys(df[ret.row]))

\* one key matched, one only true, one only estimated
C2_Witness ==
    /\ CalledOn("calculate_individual_param_errors")
    /\ Len(ret.out) = 1
    /\ TrueKeys(df[ret.row]) \ DictKeys(EstOf(df[ret.row])) # {}
    /\ DictKeys(EstOf(df[ret.row])) \ TrueKeys(df[ret.row]) # {}

\* the rows a call with this run_name works on
Selected(run_name) ==
    {i \in 1..Len(df) : run_name = "None" \/ df[i].run = run_name}

\* the position of row i among the selected rows
Rank(i, run_name) == Cardinality({j \in Selected(run_name) : j <= i})

TrueCount(row) == Len(ParamsOf(row)) + Len(StatesOf(row))

ZeroMatched(row) == row.has_result /\ Parses(row) /\ MatchedKeys(row) = {}

\* the number of entries the specification has row i add to the pool
SpecCount(i) ==
    IF df[i].has_result THEN Cardinality(MatchedKeys(df[i])) ELSE TrueCount(df[i])

SumOver(S, count(_)) == Cardinality(UNION {{i} \X (1..count(i)) : i \in S})

\* where in the pool the entries of row i start
Offset(i, run_name) == SumOver({j \in Selected(run_name) : j < i}, SpecCount)

ThePool == calculate_pooled_errors(df, ret.run_name).out

Million == F64FromInt(10^6)

\* C3: the pool of a method has as many entries as its rows add up to: the
\* matched keys of a row with a result, the true parameters plus the true
\* states of a row without one.
C3_PoolLength ==
    CalledOn("calculate_pooled_errors") =>
        Len(ret.out) = SumOver(Selected(ret.run_name), SpecCount)

\* a row with two matched keys, a failed row of 3 + 2 true keys and a row of
\* the other method
C3_Witness ==
    /\ CalledOn("calculate_pooled_errors")
    /\ ret.run_name = "odepe"
    /\ Len(df) = 3
    /\ df[1].has_result /\ Cardinality(MatchedKeys(df[1])) = 2
    /\ ~df[2].has_result /\ df[2].run = "odepe"
    /\ df[3].run = "sciml" /\ SpecCount(3) > 0
    /\ Len(ret.out) = 7

\* C4: a row without a result adds one entry for each true parameter and each
\* true state, every one of them the penalty 1e6, whatever its result cell holds.
C4_FailedRowPenalties ==
    CalledOn("calculate_pooled_errors") =>
        \A i \in Selected(ret.run_name) :
            ~df[i].has_result =>
                /\ Offset(i, ret.run_name) + TrueCount(df[i]) <= Len(ret.out)
                /\ \A j \in 1..TrueCount(df[i]) :
                       ret.out[Offset(i, ret.run_name) + j] = Million
                /\ SumOver(Selected(ret.run_name) \ {i}, SpecCount)
                   = Len(ret.out) - TrueCount(df[i])

\* a failed row with three true parameters, two true states and a result
\* cell that holds an estimate
C4_Witness ==
    /\ CalledOn("calculate_pooled_errors")
    /\ Len(df) = 1
    /\ ~df[1].has_result
    /\ EstOf(df[1]) # <<>>
    /\ Len(ParamsOf(df[1])) = 3 /\ Len(StatesOf(df[1])) = 2
    /\ ret.out = [j \in 1..5 |-> Million]

\* a failed trial in the sense of the specification
FailedTrial(row) == ~row.has_result \/ ZeroMatched(row)

\* C5 as stated: every failed trial, a row without a result or a row with a
\* result and no matched key, adds the penalty once per true parameter and
\* true state to the pool.
C5_EveryFailedTrialPenalised ==
    CalledOn("calculate_pooled_errors") =>
        Len(ret.out) = SumOver(Selected(ret.run_name),
                               LAMBDA i : IF FailedTrial(df[i]) THEN TrueCount(df[i])
                                          ELSE Cardinality(MatchedKeys(df[i])))

\* C5 amended: of the failed trials only the rows without a result are
\* penalised; a table of failed trials gives a pool of penalties, one per
\* true parameter and true state of its rows without a result, and nothing
\* for its rows with a result and no matched key.
C5_OnlyRowsWithoutResultPenalised ==
    (/\ CalledOn("calculate_pooled_errors")
     /\ \A i \in Selected(ret.run_name) : FailedTrial(df[i])) =>
        ret.out = [j \in 1..SumOver({i \in Selected(ret.run_name) : ~df[i].has_result},
                                    LAMBDA i : TrueCount(df[i])) |-> Million]

\* a failed row and a row with a result, true keys and no matched key
C5_Witness ==
    /\ CalledOn("calculate_pooled_errors")
    /\ \A i \in Selected(ret.run_name) : FailedTrial(df[i])
    /\ \E i \in Selected(ret.run_name) : ~df[i].has_result /\ TrueCount(df[i]) > 0
    /\ \E i \in Selected(ret.run_name) : ZeroMatched(df[i]) /\ TrueCount(df[i]) > 0
    /\ Len(ret.out) > 0

\* C6: a row with a result and no matched key adds nothing to the pool, and
\* has one run-level record, failed, with max, median and mean error 1e6.
C6_UnmatchedRowAsymmetry ==
    /\ CalledOn("calculate_pooled_errors") =>
           ret.out = calculate_pooled_errors(
                         SelectSeq(df, LAMBDA r : ~ZeroMatched(r)), ret.run_name).out
    /\ CalledOn("calculate_run_level_metrics") =>
           \A i \in Selected(ret.run_name) :
               ZeroMatched(df[i]) =>
                   /\ Rank(i, ret.run_name) <= Len(ret.out)
                   /\ ret.out[Rank(i, ret.run_name)].failed
                   /\ ret.out[Rank(i, ret.run_name)].max_error = Million
                   /\ ret.out[Rank(i, ret.run_name)].median_error = Million
                   /\ ret.out[Rank(i, ret.run_name)].mean_error = Million

\* the run-level call on a table with such a row, whose pool is empty
C6_Witness ==
    /\ CalledOn("calculate_run_level_metrics")
    /\ \E i \in Selected(ret.run_name) :
           /\ ZeroMatched(df[i]) /\ TrueCount(df[i]) > 0
           /\ ret.out[Rank(i, ret.run_name)].failed
           /\ calculate_pooled_errors(<<df[i]>>, ret.run_name).out = <<>>

RemoveAt(a, i) == SubSeq(a, 1, i - 1) \o SubSeq(a, i + 1, Len(a))

\* what is left of a list after its least and its greatest entry have been
\* taken away until one or two remain
RECURSIVE MiddleOf(_)
MiddleOf(a) ==
    IF Len(a) <= 2 THEN a
    ELSE LET lo   == CHOOSE i \in 1..Len(a) : \A j \in 1..Len(a) : F64Leq(a[i], a[j])
             rest == RemoveAt(a, lo)
             hi   == CHOOSE i \in 1..Len(rest) :
                         \A j \in 1..Len(rest) : F64Leq(rest[j], rest[i])
         IN  MiddleOf(RemoveAt(rest, hi))

\* the mean of two entries, whichever comes first
MeanOfTwo(a, b) == IF F64Leq(a, b) THEN F64Mid(a, b) ELSE F64Mid(b, a)

MedianOf(a) ==
    LET mid == MiddleOf(a)
    IN  IF Len(mid) = 1 THEN mid[1] ELSE MeanOfTwo(mid[1], mid[2])

\* C7 as stated: calculate_median_error of shared_metrics returns the median
\* of the pool times 100.
C7_MedianTimes100 ==
    CalledOn("calculate_median_error") =>
        LET pool == ThePool
        IN  pool # <<>> => ret.out = Times100(MedianOf(pool))

\* C7 amended: calculate_median_error of shared_metrics returns the median of
\* the pool as a fraction; calculate_median_error_only of audit_all_tables
\* returns that median times 100.
C7_MedianAsFraction ==
    /\ CalledOn("calculate_median_error") =>
           LET pool == ThePool
           IN  pool # <<>> => ret.out = MedianOf(pool)
    /\ CalledOn("audit.calculate_median_error_only") =>
           LET pool == ThePool
           IN  pool # <<>> => ret.out = Times100(MedianOf(pool))

\* a pool of an even number of entries whose median is not zero
C7_Witness ==
    /\ CalledOn("calculate_median_error")
    /\ LET pool == ThePool IN Len(pool) >= 2 /\ Len(pool) % 2 = 0
    /\ ~F64IsNaN(ret.out) /\ ~F64IsZero(ret.out)
    /\ ret.out # Times100(ret.out)

\* the entries of a pool strictly below a fraction
StrictlyBelow(pool, fraction) ==
    Len(pool) - Cardinality({i \in 1..Len(pool) : F64Leq(fraction, pool[i])})

\* the thresholds 0.01, 0.10 and 0.50
Fractions == [key \in {"SR-1", "SR-10", "SR-50"} |->
                 IF key = "SR-1" THEN F64FromDec(1, 2)
                 ELSE IF key = "SR-10" THEN F64FromDec(10, 2) ELSE F64FromDec(50, 2)]

Seven == F64FromInt(7)

NextAboveSeven == F64Round(0, BAdd(BShl(<<7>>, 50), <<1>>), <<1>>, -50)

\* C8 as stated, its example: a pool of 100 entries of which 7 are below 0.10
\* has a success rate at 0.10 of exactly 7.0.
C8_SevenOfHundredIsSeven ==
    CalledOn("calculate_success_rates") =>
        LET pool == ThePool
        IN  (Len(pool) = 100 /\ StrictlyBelow(pool, Fractions["SR-10"]) = 7) =>
                ret.out["SR-10"] = Seven

\* C8 amended: the success rate at a threshold is the quotient of the number
\* of entries strictly below it by the length of the pool, times 100, each
\* operation rounded to a double; an entry equal to the threshold is not
\* counted; 7 of 100 entries below 0.10 give 7.000000000000001, the double
\* next above 7.
C8_StrictShareRounded ==
    CalledOn("calculate_success_rates") =>
        LET pool == ThePool
        IN  pool # <<>> =>
                /\ DOMAIN ret.out = DOMAIN Fractions
                /\ \A key \in DOMAIN Fractions :
                       ret.out[key] = Percent(StrictlyBelow(pool, Fractions[key]),
                                              Len(pool))
                /\ (Len(pool) = 100 /\ StrictlyBelow(pool, Fractions["SR-10"]) = 7) =>
                       ret.out["SR-10"] = NextAboveSeven

\* 7 of 100 entries are 0.01, equal to the lowest threshold and below the next
C8_Witness ==
    /\ CalledOn("calculate_success_rates")
    /\ LET pool == ThePool
       IN  /\ Len(pool) = 100 /\ StrictlyBelow(pool, Fractions["SR-10"]) = 7
           /\ \E i \in 1..7 : pool[i] = Fractions["SR-1"]
    /\ F64IsZero(ret.out["SR-1"])
    /\ ~F64IsZero(ret.out["SR-10"])

\* C9: where no row of the table is of the method, the pool is empty, the
\* median is NaN, the three success rates are NaN, and neither these
\* functions nor the caller that slices by noise level
\* (figure_2_noise_degradation) raise.
C9_EmptySubsetNeverRaises ==
    /\ (ret.fn = "calculate_pooled_errors" /\ Selected(ret.run_name) = {}) =>
           ret.exc = "" /\ ret.out = <<>>
    /\ (ret.fn = "calculate_median_error" /\ Selected(ret.run_name) = {}) =>
           ret.exc = "" /\ F64IsNaN(ret.out)
    /\ (ret.fn = "calculate_success_rates" /\ Selected(ret.run_name) = {}) =>
           ret.exc = "" /\ \A key \in DOMAIN Fractions : F64IsNaN(ret.out[key])
    /\ (/\ ret.fn = "figure_2_noise_degradation"
        /\ \A i \in Selected(ret.run_name) : df[i].noise # ret.noise) =>
           ret.exc = ""

\* C10: calculate_run_level_metrics returns one record for each row of the
\* method, in the order of the rows, with the name of the row as system and
\* the noise of the row.
C10_OneRecordPerRow ==
    CalledOn("calculate_run_level_metrics") =>
        /\ Len(ret.out) = Cardinality(Selected(ret.run_name))
        /\ \A i \in Selected(ret.run_name) :
               /\ ret.out[Rank(i, ret.run_name)].system = df[i].name
               /\ ret.out[Rank(i, ret.run_name)].noise = df[i].noise

\* two rows of the method around a row of the other, one of them failed
C10_Witness ==
    /\ CalledOn("calculate_run_level_metrics")
    /\ Len(df) = 3
    /\ df[1].run = ret.run_name /\ df[2].run # ret.run_name /\ df[3].run = ret.run_name
    /\ df[1].name # df[3].name /\ df[1].noise # df[3].noise
    /\ df[1].has_result /\ ~df[3].has_result
    /\ Len(ret.out) = 2

\* the true keys of a row in the order of the merged mapping: the true
\* parameters, then the true states that are not also a parameter
KeysInOrder(row) ==
    [i \in 1..Len(ParamsOf(row)) |-> ParamsOf(row)[i][1]]
    \o SelectSeq([i \in 1..Len(StatesOf(row)) |-> StatesOf(row)[i][1]],
                 LAMBDA key : ~DictHas(ParamsOf(row), key))

MatchedInOrder(row) ==
    SelectSeq(KeysInOrder(row), LAMBDA key : DictHas(EstOf(row), key))

\* the errors of a row's own matched keys
OwnErrors(row) ==
    [i \in 1..Len(MatchedInOrder(row)) |-> SpecError(row, MatchedInOrder(row)[i])]

GreatestOf(a) == CHOOSE v \in Range(a) : \A i \in 1..Len(a) : ~F64Less(v, a[i])

RECURSIVE SumLeft(_, _)
SumLeft(a, n) == IF n = 0 THEN F64Zero ELSE F64Add(SumLeft(a, n - 1), a[n])

\* the sum of the entries, first to last, divided by their number
MeanOf(a) == F64Div(SumLeft(a, Len(a)), F64FromInt(Len(a)))

\* C11: a run-level record is failed exactly when its row has no result or no
\* matched key, and then its max, median and mean error are 1e6; otherwise it
\* is not failed and they are the maximum, the median and the mean of the
\* errors of the row's own matched keys.
C11_FailedOrOwnAggregates ==
    CalledOn("calculate_run_level_metrics") =>
        /\ Len(ret.out) = Cardinality(Selected(ret.run_name))
        /\ \A i \in Selected(ret.run_name) :
               LET rec == ret.out[Rank(i, ret.run_name)]
                   own == OwnErrors(df[i])
               IN  /\ rec.failed = (~df[i].has_result \/ own = <<>>)
                   /\ rec.failed =>
                          /\ rec.max_error = Million
                          /\ rec.median_error = Million
                          /\ rec.mean_error = Million
                   /\ ~rec.failed =>
                          /\ rec.max_error = GreatestOf(own)
                          /\ rec.median_error = MedianOf(own)
                          /\ rec.mean_error = MeanOf(own)

\* a row with two matched keys whose mean and median differ from its maximum,
\* next to a failed row of the same method
C11_Witness ==
    /\ CalledOn("calculate_run_level_metrics")
    /\ Len(ret.out) >= 2
    /\ \E k \in 1..Len(ret.out) : ret.out[k].failed
    /\ \E i \in Selected(ret.run_name) :
           /\ Len(OwnErrors(df[i])) = 2
           /\ ~ret.out[Rank(i, ret.run_name)].failed
           /\ F64Less(ret.out[Rank(i, ret.run_name)].mean_error,
                      ret.out[Rank(i, ret.run_name)].max_error)

\* C12: every run-level record has max_error >= median_error and
\* max_error >= mean_error.
C12_MaxBoundsMedianAndMean ==
    CalledOn("calculate_run_level_metrics") =>
        \A k \in 1..Len(ret.out) :
            /\ F64Leq(ret.out[k].median_error, ret.out[k].max_error)
            /\ F64Leq(ret.out[k].mean_error, ret.out[k].max_error)

\* what the specification has a row add to the pool
Contribution(row) ==
    IF row.has_result THEN OwnErrors(row) ELSE [j \in 1..TrueCount(row) |-> Million]

\* the contributions of the selected rows among the first n, in row order
RECURSIVE ContributionsUpTo(_, _)
ContributionsUpTo(n, run_name) ==
    IF n = 0 THEN <<>>
    ELSE ContributionsUpTo(n - 1, run_name)
         \o (IF n \in Selected(run_name) THEN Contribution(df[n]) ELSE <<>>)

CountIn(a, v) == Cardinality({i \in 1..Len(a) : a[i] = v})

\* the pools of the parts hold together what the pool of the whole holds
SameEntries(whole, parts) ==
    /\ Len(whole) = SumOver(DOMAIN parts, LAMBDA p : Len(parts[p]))
    /\ \A v \in Range(whole) :
           CountIn(whole, v)
           = SumOver(DOMAIN parts, LAMBDA p : CountIn(parts[p], v))

Malformed(cell) == cell.kind = "bad"

\* the row with its malformed cells read as empty mappings
Degraded(row) ==
    [row EXCEPT !.result = IF Malformed(@) THEN ListCell(<<>>) ELSE @,
                !.true_parameters = IF Malformed(@) THEN DictCell(<<>>) ELSE @,
                !.true_states = IF Malformed(@) THEN DictCell(<<>>) ELSE @]

DegradedTable == [i \in 1..Len(df) |-> Degraded(df[i])]

\* C15: calculate_pooled_errors and calculate_run_level_metrics do not raise
\* on a malformed result, true_parameters or true_states cell: they return
\* what they return for the table with that cell read as an empty mapping.
C15_MalformedCellDegrades ==
    /\ ret.fn = "calculate_pooled_errors" =>
           /\ ret.exc = ""
           /\ ret.out = calculate_pooled_errors(DegradedTable, ret.run_name).out
    /\ ret.fn = "calculate_run_level_metrics" =>
           /\ ret.exc = ""
           /\ ret.out = calculate_run_level_metrics(DegradedTable, ret.run_name).out

\* the contributions of the rows of S among the first n, in row order
RECURSIVE ContributionsAmong(_, _)
ContributionsAmong(n, S) ==
    IF n = 0 THEN <<>>
    ELSE ContributionsAmong(n - 1, S)
         \o (IF n \in S THEN Contribution(df[n]) ELSE <<>>)

MedianOrNaN(a) == IF a = <<>> THEN F64NaN ELSE MedianOf(a)

\* C14: the pool of a method is the pool of its rows alone; the view by noise
\* has, for every noise level of the table, the median error of the method on
\* the rows of that level, and the view by system, for every system of the
\* table, the median error of the method on the rows of that system at the
\* noise level asked for; each is the median of what the rows of that
\* method, level and system add, whatever the other rows hold.
C14_ViewsOfSelectedRows ==
    /\ (CalledOn("calculate_pooled_errors") /\ ret.run_name # "None") =>
           ret.out = calculate_pooled_errors(SelectRun(df, ret.run_name), "None").out
    /\ CalledOn("calculate_performance_by_noise") =>
           /\ DOMAIN ret.out = {df[i].noise : i \in 1..Len(df)}
           /\ \A n \in DOMAIN ret.out :
                  /\ ret.out[n]
                     = calculate_median_error(SelectNoise(df, n), ret.run_name).out
                  /\ ret.out[n]
                     = MedianOrNaN(ContributionsAmong(Len(df),
                           {i \in Selected(ret.run_name) : df[i].noise = n}))
    /\ CalledOn("calculate_performance_by_system") =>
           /\ DOMAIN ret.out = {df[i].name : i \in 1..Len(df)}
           /\ \A sys \in DOMAIN ret.out :
                  /\ ret.out[sys]
                     = calculate_median_error(
                           SelectName(SelectNoise(df, ret.noise), sys),
                           ret.run_name).out
                  /\ ret.out[sys]
                     = MedianOrNaN(ContributionsAmong(Len(df),
                           {i \in Selected(ret.run_name) :
                               df[i].noise = ret.noise /\ df[i].name = sys}))

\* a view by noise of a method with rows at two noise levels, next to a row
\* of the other method that would change the median of one of them
C14_Witness ==
    /\ CalledOn("calculate_performance_by_noise")
    /\ Len(df) = 3
    /\ Cardinality(DOMAIN ret.out) = 2
    /\ \A n \in DOMAIN ret.out : ~F64IsNaN(ret.out[n])
    /\ \E i \in 1..3 :
           /\ df[i].run # ret.run_name
           /\ Contribution(df[i]) # <<>>
           /\ ret.out[df[i].noise]
              # calculate_median_error(SelectNoise(df, df[i].noise), "None").out

\* C18 as stated: audit_all_tables.calculate_metrics and
\* shared_metrics.calculate_all_metrics return equal sr_1, sr_10, sr_50,
\* median_error, mean_time and n_total, and Method B returns the pool and the
\* median of calculate_pooled_errors and calculate_median_error.
C18_ConsumersAgree ==
    /\ CalledOn("calculate_all_metrics") =>
           ret.out = audit_calculate_metrics(df, ret.run_name).out
    /\ CalledOn("compare.method_b_per_parameter_pooling") =>
           /\ ret.out.all_param_errors = calculate_pooled_errors(df, ret.run_name).out
           /\ ret.out.median_value = calculate_median_error(df, ret.run_name).out

\* C18 amended: the two return equal sr_1, sr_10, sr_50, mean_time and
\* n_total, and the median_error of the audit is 100 times the median_error of
\* calculate_all_metrics (a percentage against a fraction); Method B returns
\* the pool and the median of the shared functions.
C18_ConsumersAgreeUpToPercent ==
    /\ CalledOn("calculate_all_metrics") =>
           LET audit == audit_calculate_metrics(df, ret.run_name)
           IN  /\ audit.exc = ""
               /\ DOMAIN audit.out = DOMAIN ret.out
               /\ \A metric \in DOMAIN ret.out \ {"median_error"} :
                      audit.out[metric] = ret.out[metric]
               /\ audit.out.median_error = Times100(ret.out.median_error)
    /\ CalledOn("compare.method_b_per_parameter_pooling") =>
           /\ ret.out.all_param_errors = calculate_pooled_errors(df, ret.run_name).out
           /\ ret.out.median_value = calculate_median_error(df, ret.run_name).out

\* all metrics of a method with a failed row, whose median is neither zero
\* nor NaN and whose success rates differ
C18_Witness ==
    /\ CalledOn("calculate_all_metrics")
    /\ \E i \in Selected(ret.run_name) : ~df[i].has_result
    /\ ~F64IsNaN(ret.out.median_error) /\ ~F64IsZero(ret.out.median_error)
    /\ ret.out.sr_10 # ret.out.sr_50
    /\ ret.out.n_total = 3

\* a failed run in the sense of the run-level metrics
FailedRun(row) == ~row.has_result \/ OwnErrors(row) = <<>>

\* every true parameter and state has an estimate whose error is below X
AllTrueKeysMeet(row, X) ==
    \A key \in TrueKeys(row) :
        DictHas(EstOf(row), key) /\ F64Less(SpecError(row, key), X)

\* every true parameter and state that has an estimate has an error below X
MatchedKeysMeet(row, X) ==
    \A k \in 1..Len(OwnErrors(row)) : F64Less(OwnErrors(row)[k], X)

\* the text of a number of tenths
TextOfTenths(q) == ToString(q \div 10) \o "." \o ToString(q % 10)

\* count of total as a percentage with one decimal: the nearest number of
\* tenths, the even one of two equally near
ShareText(count, total) ==
    TextOfTenths(CHOOSE q \in 0..1000 :
        LET gap == 2 * (1000 * count - q * total)
        IN  /\ gap <= total /\ 0 - gap <= total
            /\ (gap = total \/ 0 - gap = total) => q % 2 = 0)

\* the thresholds of Success@1%, Success@10% and Success@50%
TableFractions ==
    [success_1pct |-> F64FromDec(1, 2), success_10pct |-> F64FromDec(10, 2),
     success_50pct |-> F64FromDec(50, 2)]

Seconds(i) == df[i].time[1]

\* C20: mean_time of calculate_all_metrics is the sum of the time of every row
\* of the method, failed or not, divided by the number of those rows, and
\* n_total is that number; for a method without rows they are NaN and 0.
C20_MeanTimeOverAllRows ==
    CalledOn("calculate_all_metrics") =>
        /\ ret.out.n_total = Cardinality(Selected(ret.run_name))
        /\ ret.out.mean_time
           = IF Selected(ret.run_name) = {} THEN F64NaN
             ELSE F64Div(F64FromInt(SumOver(Selected(ret.run_name), Seconds)),
                         F64FromInt(Cardinality(Selected(ret.run_name))))

\* a failed row and rows with a result whose times differ, with a mean that
\* is the time of none of them
C20_Witness ==
    /\ CalledOn("calculate_all_metrics")
    /\ ret.out.n_total = 3
    /\ \E i \in Selected(ret.run_name) : ~df[i].has_result
    /\ \E i \in Selected(ret.run_name) : df[i].has_result
    /\ \A i \in Selected(ret.run_name) : ret.out.mean_time # F64FromInt(Seconds(i))
    /\ Len(ret.out.mean_time.m) = 4

\* the published value of pass k: the cell of the last line of the method,
\* NaN where the file has no line of the method
LinesOf(file, method) == {i \in 1..Len(file.lines) : file.lines[i].method = method}

Published(file, k) ==
    IF LinesOf(file, method_at(k)) = {} THEN F64NaN
    ELSE LET last == CHOOSE i \in LinesOf(file, method_at(k)) :
                         \A j \in LinesOf(file, method_at(k)) : j <= i
         IN  F64FromDec(file.lines[last].cells[slot_at(k)].lit[1],
                        file.lines[last].cells[slot_at(k)].lit[2])

\* the recomputed value of pass k
Recomputed(k) ==
    IF ret.fn = "audit_table1"
    THEN audit_calculate_metrics(df, method_at(k)).out[table1_metrics[slot_at(k)]]
    ELSE calculate_median_error_only(SelectNoise(df, noise_levels[slot_at(k)]),
                                     method_at(k)).out

FileRead ==
    IF ret.fn = "audit_table1" THEN paper_tables.table_1 ELSE paper_tables.table_2

\* |table - calculated| of pass k
Difference(k) == F64Abs(F64Sub(Published(FileRead, k), Recomputed(k)))

One == F64FromInt(1)

Tenth == F64FromDec(1, 1)

\* 1.0 for the seconds of mean_time and 0.1 for a percentage
Tolerance(k) ==
    IF ret.fn = "audit_table1" /\ slot_at(k) = 5 THEN One ELSE Tenth

MetricOf(k) ==
    IF ret.fn = "audit_table1" THEN table1_metrics[slot_at(k)]
    ELSE "noise_" \o noise_labels[slot_at(k)]

RecordedFor(k) ==
    {i \in 1..Len(ret.out.discrepancies) :
        /\ ret.out.discrepancies[i].method = method_names[method_at(k)]
        /\ ret.out.discrepancies[i].metric = MetricOf(k)}

AuditReturned == CalledOn("audit_table1") \/ CalledOn("audit_table2")

\* what the claim says of one pass, given its values
PassWithin(k, published, recomputed, difference, tol) ==
    /\ ret.out.printed[k] = "check" <=> F64Less(difference, tol)
    /\ F64Eq(difference, tol) => RecordedFor(k) # {}
    /\ F64Less(tol, difference) => RecordedFor(k) # {}
    /\ F64Less(difference, tol) => RecordedFor(k) = {}
    /\ \A i \in RecordedFor(k) :
          /\ ret.out.discrepancies[i].table_val = published
          /\ ret.out.discrepancies[i].calc_val = recomputed
          /\ ret.out.discrepancies[i].diff = difference
    /\ Cardinality(RecordedFor(k)) <= 1

PassOf(k, published, recomputed) ==
    PassWithin(k, published, recomputed, F64Abs(F64Sub(published, recomputed)),
               Tolerance(k))

\* C16: in audit_table1 and audit_table2 a published value is marked as
\* matching the recomputed one exactly when |table - calculated| is strictly
\* below the tolerance, 1.0 for mean_time and 0.1 for every percentage; a
\* difference equal to or above the tolerance is recorded as one discrepancy
\* with the two values and the difference, and all_match is False exactly
\* when a discrepancy is recorded.
C16_MatchWithinTolerance ==
    AuditReturned =>
        /\ \A k \in 1..25 : PassOf(k, Published(FileRead, k), Recomputed(k))
        /\ ret.out.all_match <=> ret.out.discrepancies = <<>>
        /\ Len(ret.out.discrepancies)
           = Cardinality({k \in 1..25 : RecordedFor(k) # {}})

\* an audit of Table 1 with a percentage whose difference is the tolerance
\* 0.1, a mean_time whose difference is the tolerance 1.0, and values that
\* match
C16_Witness ==
    /\ CalledOn("audit_table1")
    /\ \E i \in 1..Len(ret.out.discrepancies) :
          /\ ret.out.discrepancies[i].metric = "sr_1"
          /\ ret.out.discrepancies[i].diff = Tenth
    /\ \E i \in 1..Len(ret.out.discrepancies) :
          /\ ret.out.discrepancies[i].metric = "mean_time"
          /\ ret.out.discrepancies[i].diff = One
    /\ \E k \in 1..25 :
          /\ ret.out.printed[k] = "check"
          /\ F64Less(F64Zero, Difference(k))
    /\ ~ret.out.all_match

\* the file read has no line of an audited method, or a cell that is not a
\* number, or it is missing
TableValueMissing(file) ==
    \/ ~file.exists
    \/ \E m \in 1..5 : LinesOf(file, audit_methods[m]) = {}
    \/ \E i \in 1..Len(file.lines) :
          \/ Len(file.lines[i].cells) < 5
          \/ \E c \in 1..Len(file.lines[i].cells) : ~file.lines[i].cells[c].numeric

\* C17: audit_table1 and audit_table2 raise when the table file is missing,
\* when it has no line of an audited method, or when a cell is not a number;
\* and when they return all_match = True, no published value is missing and
\* no recomputed value is NaN.
C17_MissingValuesRaise ==
    ret.fn \in {"audit_table1", "audit_table2"} =>
        /\ TableValueMissing(FileRead) => ret.exc # ""
        /\ (ret.exc = "" /\ ret.out.all_match) =>
               \A k \in 1..25 :
                   /\ ~F64IsNaN(Published(FileRead, k))
                   /\ ~F64IsNaN(Recomputed(k))

\* C26: a trial adds as many penalties to the pool when it has no result as
\* it adds errors when it has a result that estimates every true key: the
\* number of keys of the merged true mapping, also when a name is both a
\* parameter and a state.
C26_PenaltiesAsManyAsKeys ==
    (CalledOn("calculate_pooled_errors") /\ Len(df) = 1 /\ ret.run_name = "None") =>
        /\ ~df[1].has_result => Len(ret.out) = Cardinality(TrueKeys(df[1]))
        /\ (df[1].has_result /\ TrueKeys(df[1]) \subseteq DictKeys(EstOf(df[1])))
               => Len(ret.out) = Cardinality(TrueKeys(df[1]))

Hundred == F64FromInt(100)

\* C27: for a pool that is not empty 0 <= SR-1 <= SR-10 <= SR-50 <= 100; a
\* pool that holds a penalty has no rate of 100; and a method whose rows all
\* lack a result, one of them with a true key, has the three rates 0 and the
\* penalty as its pooled median.
C27_RatesOrderedPenaltyUncounted ==
    CalledOn("calculate_all_metrics") =>
        LET pool == ContributionsUpTo(Len(df), ret.run_name)
            rows == Selected(ret.run_name)
        IN  /\ pool # <<>> =>
                  /\ F64Leq(F64Zero, ret.out.sr_1)
                  /\ F64Leq(ret.out.sr_1, ret.out.sr_10)
                  /\ F64Leq(ret.out.sr_10, ret.out.sr_50)
                  /\ F64Leq(ret.out.sr_50, Hundred)
            /\ (\E k \in 1..Len(pool) : pool[k] = Million) =>
                  F64Less(ret.out.sr_50, Hundred)
            /\ (/\ \A i \in rows : ~df[i].has_result
                /\ \E i \in rows : TrueCount(df[i]) > 0) =>
                  /\ ret.out.sr_1 = F64Zero
                  /\ ret.out.sr_10 = F64Zero
                  /\ ret.out.sr_50 = F64Zero
                  /\ ret.out.median_error = Million

\* a method with rows that all lack a result, next to a row of another method
\* that has one
C27_Witness ==
    /\ CalledOn("calculate_all_metrics")
    /\ Cardinality(Selected(ret.run_name)) = 2
    /\ \A i \in Selected(ret.run_name) : ~df[i].has_result /\ TrueCount(df[i]) > 0
    /\ \E i \in 1..Len(df) : df[i].has_result /\ i \notin Selected(ret.run_name)
    /\ ret.out.sr_50 = F64Zero
    /\ ret.out.median_error = Million

\* the max_error and the mean_error columns of run records
MaxColumn(recs) == [i \in 1..Len(recs) |-> recs[i].max_error]

MeanColumn(recs) == [i \in 1..Len(recs) |-> recs[i].mean_error]

\* C28: when a method has a run and every record of
\* calculate_run_level_metrics has max_error below a threshold, the pooled
\* success rate of the method at that threshold is 100.
C28_RunSuccessImpliesPooled ==
    CalledOn("calculate_run_level_metrics") =>
        \A key \in DOMAIN Fractions :
            (/\ Len(ret.out) > 0
             /\ \A i \in 1..Len(ret.out) :
                   F64Less(ret.out[i].max_error, Fractions[key]))
            => calculate_success_rates(df, ret.run_name).out[key] = Hundred

\* two runs that both succeed at 50% and not both at 10%
C28_Witness ==
    /\ CalledOn("calculate_run_level_metrics")
    /\ Len(ret.out) = 2
    /\ \A i \in 1..2 : F64Less(ret.out[i].max_error, Fractions["SR-50"])
    /\ \E i \in 1..2 : ~F64Less(ret.out[i].max_error, Fractions["SR-10"])
    /\ ret.out[1].max_error # ret.out[2].max_error
    /\ calculate_success_rates(df, ret.run_name).out["SR-50"] = Hundred

\* the run records of the shared function for the rows of one method, noise
\* level and system
SharedRecords(run_name, noise_level, system) ==
    calculate_run_level_metrics(
        SelectName(SelectNoise(df, noise_level), system), run_name)

\* C29: generate_all_final_figures.calculate_run_level_metrics returns the
\* records of shared_metrics.calculate_run_level_metrics, and raises where it
\* raises; calculate_run_level_metrics_by_system returns the median of the
\* max_error of the shared records of the rows with that run, noise and name,
\* NaN when there are none.
C29_CopiesAgree ==
    /\ ret.fn = "figures.calculate_run_level_metrics" =>
           /\ ret.exc = calculate_run_level_metrics(df, ret.run_name).exc
           /\ ret.out = calculate_run_level_metrics(df, ret.run_name).out
    /\ ret.fn = "calculate_run_level_metrics_by_system" =>
           LET shared == SharedRecords(ret.run_name, ret.noise.noise_level,
                                       ret.noise.system)
           IN  /\ ret.exc = shared.exc
               /\ ret.exc = "" =>
                      ret.out = IF Len(shared.out) = 0 THEN F64NaN
                                ELSE MedianOf(MaxColumn(shared.out))

\* the median over the two runs of one system at one noise level, in a table
\* that holds a run of the same method and noise level on another system
C29_Witness ==
    /\ CalledOn("calculate_run_level_metrics_by_system")
    /\ Len(df) = 3
    /\ \E i \in 1..3 :
          /\ df[i].name # ret.noise.system
          /\ df[i].run = ret.run_name
          /\ df[i].noise = ret.noise.noise_level
    /\ Len(SharedRecords(ret.run_name, ret.noise.noise_level, ret.noise.system).out) = 2
    /\ ~F64IsNaN(ret.out)
    /\ ret.out # PENALTY

\* C30: method_a_per_run_median returns one value per row of the method, the
\* mean_error of the record of calculate_run_level_metrics for that row, and
\* the median of those values; it raises where the shared function raises.
C30_MethodAIsMeanErrorColumn ==
    ret.fn = "compare.method_a_per_run_median" =>
        LET shared == calculate_run_level_metrics(df, ret.run_name)
        IN  /\ ret.exc = shared.exc
            /\ ret.exc = "" =>
                   /\ Len(ret.out.per_run_errors) = Cardinality(Selected(ret.run_name))
                   /\ ret.out.per_run_errors = MeanColumn(shared.out)
                   /\ ret.out.median_value = np_median_of_runs(MeanColumn(shared.out))

\* three rows of the method: one without a result, one without a matched
\* key, and one whose mean error is not its greatest error
C30_Witness ==
    /\ CalledOn("compare.method_a_per_run_median")
    /\ Len(ret.out.per_run_errors) = 3
    /\ \E i \in Selected(ret.run_name) : ~df[i].has_result
    /\ \E i \in Selected(ret.run_name) : df[i].has_result /\ OwnErrors(df[i]) = <<>>
    /\ \E i \in Selected(ret.run_name) :
          /\ OwnErrors(df[i]) # <<>>
          /\ df[i].has_result
          /\ MeanOf(OwnErrors(df[i])) # GreatestOf(OwnErrors(df[i]))
          /\ \E k \in 1..3 : ret.out.per_run_errors[k] = MeanOf(OwnErrors(df[i]))

\* the names a cell holds, none when it is empty or unparseable
CellKeys(cell) ==
    IF cell.kind \in {"list", "dict"} THEN DictKeys(cell.items) ELSE {}

OtherColumns == {"run", "name", "noise", "has_result", "true_parameters", "time"}

Happened(ev, what, res) ==
    \E i \in 1..Len(build.log) : build.log[i] = Event(ev, what, res)

StartedStep(step) == Happened("start", step, "")

RanCommand(what) == \E o \in Outcomes : Happened("run", what, o)

StepNames == <<"step1", "step2", "step3", "step4", "step5">>

StepNo(step) == CHOOSE n \in 1..Len(StepNames) : StepNames[n] = step

\* anything that belongs to the steps after step 2
LaterWork(e) ==
    \/ e.ev = "start" /\ e.what \in {"step3", "step4", "step5"}
    \/ e.ev \in {"copy", "skip"}
    \/ e.ev = "run" /\ e.what \in {fig_scripts[1], fig_scripts[2], "pdflatex", "bibtex"}

\* C23: main starts the steps in the order 1 to 5, each at most once; when
\* step 2 returns False nothing of a later step is started and main returns
\* 1; the Tables 3-4 generator is not run when the Tables 1-2 generator
\* fails; step 2 is started after a step 1 that returned False.
C23_StepsInOrder ==
    build.pc # "" =>
        /\ \A i, j \in 1..Len(build.log) :
              (i < j /\ build.log[i].ev = "start" /\ build.log[j].ev = "start")
                  => StepNo(build.log[i].what) < StepNo(build.log[j].what)
        /\ \A j \in 1..Len(build.log) :
              build.log[j].ev = "start" =>
                  \A n \in 1..(StepNo(build.log[j].what) - 1) :
                      \E i \in 1..(j - 1) : build.log[i] = Event("start", StepNames[n], "")
        /\ Happened("return", "step2", "False") =>
              /\ \A i \in 1..Len(build.log) : ~LaterWork(build.log[i])
              /\ build.pc = "done"
              /\ build.exit = "1"
        /\ Happened("run", TABLES_1_2_SCRIPT, "1") => ~RanCommand(TABLES_3_4_SCRIPT)
        /\ (Happened("return", "step1", "False") /\ build.pc \notin {"step2"})
              => StartedStep("step2")

\* the filter fails, the Tables 1-2 generator succeeds and the Tables 3-4
\* generator fails: main returns 1 without a later step
C23_Witness ==
    /\ build.pc = "done"
    /\ Happened("run", FILTER_SCRIPT, "1")
    /\ Happened("return", "step1", "False")
    /\ Happened("run", TABLES_1_2_SCRIPT, "0")
    /\ Happened("run", TABLES_3_4_SCRIPT, "1")
    /\ Happened("return", "step2", "False")
    /\ build.exit = "1"
    /\ build.report = "BUILD FAILED"

\* C24: main returns 0 and reports BUILD COMPLETE exactly when step 2
\* returned True and paper.pdf exists when step 5 finishes; step 3 and step 4
\* never return False.
C24_ExitStatus ==
    /\ build.pc = "done" =>
           /\ build.exit = "0" <=>
                  /\ Happened("return", "step2", "True")
                  /\ \E r \in {"True", "False"} : Happened("return", "step5", r)
                  /\ pdf_file \in build.files
           /\ build.exit = "0" <=> build.report = "BUILD COMPLETE"
    /\ build.pc # "" =>
           /\ ~Happened("return", "step3", "False")
           /\ ~Happened("return", "step4", "False")

\* success although the filter, a figure script and every pdflatex and bibtex
\* command failed, tables and the figures directory were missing: paper.pdf
\* is there
C24_Witness ==
    /\ build.pc = "done"
    /\ build.exit = "0"
    /\ build.report = "BUILD COMPLETE"
    /\ Happened("return", "step1", "False")
    /\ Happened("run", fig_scripts[2], "1")
    /\ Happened("skip", fig_scripts[1], "")
    /\ Happened("skip", tables[2], "")
    /\ Happened("copy", tables[1], "")
    /\ Happened("skip", figures_dir, "")
    /\ ~Happened("run", "pdflatex", "0")
    /\ Happened("run", "bibtex", "1")
    /\ Happened("return", "step5", "True")

\* the DataLoader object of the last call, and the files before the call
Self == loader.obj[ret.row]

LoaderCalled(fn) == ret.fn = fn /\ ret.exc = ""

\* the processed frame of the CSV file at the loader's csv_path
FrameOfCsv(self) == with_metrics(read_csv(loader.csv[loader.obj[self].csv_path]))

\* C25: get_data reads the parquet cache exactly when use_cache is true and
\* the cache file exists and otherwise processes the CSV; the cache file is
\* written only by process_data with use_cache true; after get_data and
\* get_summary_statistics processed_df is set; the frame get_data returns is
\* the one of the CSV file at csv_path.
C25_LoaderServesCsv ==
    /\ LoaderCalled("DataLoader.get_data") =>
           /\ "read_parquet" \in ret.out.did
                  <=> (Self.use_cache /\ ret.out.before.parquet # NoParquet)
           /\ "read_parquet" \notin ret.out.did <=> "process_data" \in ret.out.did
    /\ (ret.fn # "" /\ loader.parquet # ret.out.before.parquet) =>
           /\ {"process_data", "to_parquet"} \subseteq ret.out.did
           /\ Self.use_cache
    /\ (LoaderCalled("DataLoader.get_data")
        \/ LoaderCalled("DataLoader.get_summary_statistics")) =>
           Self.processed_df # PyNone
    /\ LoaderCalled("DataLoader.get_data") => ret.out.value = FrameOfCsv(ret.row)

\* the parts of C25 other than the last
C25_CacheDiscipline ==
    /\ LoaderCalled("DataLoader.get_data") =>
           /\ "read_parquet" \in ret.out.did
                  <=> (Self.use_cache /\ ret.out.before.parquet # NoParquet)
           /\ "read_parquet" \notin ret.out.did <=> "process_data" \in ret.out.did
    /\ (ret.fn # "" /\ loader.parquet # ret.out.before.parquet) =>
           /\ {"process_data", "to_parquet"} \subseteq ret.out.did
           /\ Self.use_cache
    /\ (LoaderCalled("DataLoader.get_data")
        \/ LoaderCalled("DataLoader.get_summary_statistics")) =>
           Self.processed_df # PyNone


\* the statistic and unit of each column: as generate_table_1 writes them and
\* as extract_table1_values names them
WrittenStatistics ==
    <<"success_1pct percent", "success_10pct percent", "success_50pct percent",
      "median_max_error percent", "p90_max_error percent">>

ReadStatistics ==
    [sr_1 |-> "success_1pct percent", sr_10 |-> "success_10pct percent",
     sr_50 |-> "success_50pct percent", median_error |-> "median_error percent",
     mean_time |-> "mean_time seconds"]

WrittenCell(part) == without_row_end(part)

\* C21: every data cell that the table generators write is read back by the
\* audit extractor of that table without raising, as the number that was
\* printed, and as the statistic and unit the generator put in its column;
\* this includes the cells "N/A" and "$>1000$" of the system tables.
C21_TablesRoundTrip ==
    /\ (ret.fn = "extract_table1_values" /\ paper_tables.table_1.exists) =>
           /\ ret.exc = ""
           /\ \A n \in 1..Len(paper_tables.table_1.lines) :
                  LET line == paper_tables.table_1.lines[n]
                  IN  /\ line.method \in DOMAIN ret.out
                      /\ \A i \in 1..5 :
                             /\ ret.out[line.method][table1_metrics[i]]
                                    = WrittenCell(line.cells[i]).value
                             /\ ReadStatistics[table1_metrics[i]] = WrittenStatistics[i]
    /\ (ret.fn = "extract_table3_values" /\ paper_tables.system_table.exists) =>
           /\ ret.exc = ""
           /\ \A n \in 1..Len(paper_tables.system_table.lines) :
                  LET line == paper_tables.system_table.lines[n]
                  IN  /\ line.method \in DOMAIN ret.out
                      /\ \A i \in 1..Len(system_methods) :
                             /\ WrittenCell(line.cells[i]).numeric
                             /\ ret.out[line.method][system_methods[i]]
                                    = WrittenCell(line.cells[i]).value

\* what does round-trip: a system table whose cells are all printed numbers is
\* read back without raising, each cell as the number that was printed
C21_PrintedCellsReadBack ==
    (/\ ret.fn = "extract_table3_values"
     /\ paper_tables.system_table.exists
     /\ \A n \in 1..Len(paper_tables.system_table.lines) :
            \A i \in 1..Len(system_methods) :
                WrittenCell(paper_tables.system_table.lines[n].cells[i]).numeric) =>
        /\ ret.exc = ""
        /\ \A n \in 1..Len(paper_tables.system_table.lines) :
               \A i \in 1..Len(system_methods) :
                   ret.out[paper_tables.system_table.lines[n].method][system_methods[i]]
                       = WrittenCell(paper_tables.system_table.lines[n].cells[i]).value

\* a written table 1 has been handed to its extractor
C21_Table1Read ==
    /\ ret.fn = "extract_table1_values"
    /\ paper_tables.table_1.exists
    /\ Len(paper_tables.table_1.lines) = Len(table_methods)

\* a system table with a line of three printed numbers has been read back
C21_NumbersRead ==
    /\ ret.fn = "extract_table3_values"
    /\ paper_tables.system_table.exists
    /\ ret.exc = ""
    /\ Len(paper_tables.system_table.lines) > 0

====
